---------------------------- MODULE Spec2Model ----------------------------
(***************************************************************************)
(* A model of the contact-extraction and validation core of               *)
(* school-contacts-nsw: the email classifier and the general-email        *)
(* selector of utils/extractors.py, the row standardiser and deduplicator  *)
(* of utils/cleaner.py as the merge step 04_merge_dedupe.py drives them,   *)
(* the candidate extractors of utils/extractors.py over a parsed page, and *)
(* the website_checked flag of a contact file as the enrichment loops and  *)
(* the clean-up pass write it.                                             *)
(*                                                                         *)
(* Python strings are TLA+ strings, handled one character at a time with  *)
(* Head, Tail, SubSeq, Len and \o.  Two characters outside ASCII are       *)
(* written with an ASCII stand-in that occurs nowhere else in the model:   *)
(*     "~"  is U+200B ZERO WIDTH SPACE (one of INVISIBLE_CHARS_RE),        *)
(*     "$"  is U+017F LATIN SMALL LETTER LONG S, a character that the      *)
(*          class [A-Z] matches under re.IGNORECASE, that str.lower()      *)
(*          leaves alone and that [a-z] without the flag does not match.   *)
(* "\n" is the newline, the one character before which "$" of a Python     *)
(* pattern also matches at the end of the string.                          *)
(*                                                                         *)
(* Python values that may be None or NaN are tagged tuples: PyNone, NaN,   *)
(* Str(s).                                                                 *)
(***************************************************************************)
EXTENDS Integers, Sequences, FiniteSets, TLC

VARIABLES classify, choose, frame, campaign, extract, client

vars == <<classify, choose, frame, campaign, extract, client>>

---------------------------------------------------------------------------
(* Python values *)

PyNone == <<"None">>
NaN == <<"NaN">>
Str(s) == <<"str", s>>
IsStr(v) == v[1] = "str"
Val(v) == v[2]

---------------------------------------------------------------------------
(* str methods, character by character *)

Chars(s) == {SubSeq(s, i, i) : i \in 1..Len(s)}

Lowers == "abcdefghijklmnopqrstuvwxyz"
Uppers == "ABCDEFGHIJKLMNOPQRSTUVWXYZ"
Digits == "0123456789"
LowerSet == Chars(Lowers)
UpperSet == Chars(Uppers)
DigitSet == Chars(Digits)
\* str.strip() with no argument strips whitespace
WhitespaceSet == {" ", "\n", "\t"}

ToLowerChar(c) ==
    IF c \in UpperSet
    THEN LET i == CHOOSE k \in 1..26 : SubSeq(Uppers, k, k) = c
         IN  SubSeq(Lowers, i, i)
    ELSE c

RECURSIVE Lower(_)
Lower(s) == IF s = "" THEN "" ELSE ToLowerChar(Head(s)) \o Lower(Tail(s))

RECURSIVE LStrip(_, _)
LStrip(s, set) ==
    IF s # "" /\ Head(s) \in set THEN LStrip(Tail(s), set) ELSE s

RECURSIVE RStrip(_, _)
RStrip(s, set) ==
    IF s # "" /\ SubSeq(s, Len(s), Len(s)) \in set
    THEN RStrip(SubSeq(s, 1, Len(s) - 1), set)
    ELSE s

Strip(s, set) == RStrip(LStrip(s, set), set)

StartsWith(s, p) == Len(s) >= Len(p) /\ SubSeq(s, 1, Len(p)) = p
EndsWith(s, p) == Len(s) >= Len(p) /\ SubSeq(s, Len(s) - Len(p) + 1, Len(s)) = p
Contains(s, p) == \E i \in 1..(Len(s) - Len(p) + 1) : SubSeq(s, i, i + Len(p) - 1) = p
Count(s, c) == Cardinality({i \in 1..Len(s) : SubSeq(s, i, i) = c})
AllIn(s, set) == \A i \in 1..Len(s) : SubSeq(s, i, i) \in set

\* 0 when c does not occur
FirstIndex(s, c) ==
    IF Contains(s, c)
    THEN CHOOSE i \in 1..Len(s) :
            /\ SubSeq(s, i, i) = c
            /\ \A j \in 1..(i - 1) : SubSeq(s, j, j) # c
    ELSE 0

LastIndex(s, c) ==
    IF Contains(s, c)
    THEN CHOOSE i \in 1..Len(s) :
            /\ SubSeq(s, i, i) = c
            /\ \A j \in (i + 1)..Len(s) : SubSeq(s, j, j) # c
    ELSE 0

\* s.split(c, 1)[0] and s.split(c, 1)[-1]
BeforeLeftmost(s, c) == IF Contains(s, c) THEN SubSeq(s, 1, FirstIndex(s, c) - 1) ELSE s
AfterLeftmost(s, c) == IF Contains(s, c) THEN SubSeq(s, FirstIndex(s, c) + 1, Len(s)) ELSE s
\* s.rsplit(c, 1)[0] and s.rsplit(c, 1)[-1]
BeforeLast(s, c) == IF Contains(s, c) THEN SubSeq(s, 1, LastIndex(s, c) - 1) ELSE s
AfterLast(s, c) == IF Contains(s, c) THEN SubSeq(s, LastIndex(s, c) + 1, Len(s)) ELSE s

RECURSIVE RemoveChars(_, _)
RemoveChars(s, set) ==
    IF s = "" THEN ""
    ELSE IF Head(s) \in set THEN RemoveChars(Tail(s), set)
    ELSE Head(s) \o RemoveChars(Tail(s), set)

\* [p for p in s.split(c) if p]
RECURSIVE SplitNonEmpty(_, _)
SplitNonEmpty(s, c) ==
    IF s = "" THEN << >>
    ELSE IF ~Contains(s, c) THEN <<s>>
    ELSE LET h == BeforeLeftmost(s, c)
             t == SplitNonEmpty(AfterLeftmost(s, c), c)
         IN  IF h = "" THEN t ELSE <<h>> \o t

\* c.join(parts)
RECURSIVE Join(_, _)
Join(parts, c) ==
    IF parts = << >> THEN ""
    ELSE IF Len(parts) = 1 THEN parts[1]
    ELSE parts[1] \o c \o Join(Tail(parts), c)

LastN(seq, n) == SubSeq(seq, Len(seq) - n + 1, Len(seq))

\* the sequences of at most n elements of set
RECURSIVE SeqsUpTo(_, _)
SeqsUpTo(set, n) ==
    IF n = 0 THEN {<< >>}
    ELSE LET shorter == SeqsUpTo(set, n - 1)
         IN  shorter \cup {<<x>> \o q : x \in set, q \in {r \in shorter : Len(r) = n - 1}}

---------------------------------------------------------------------------
(* utils/extractors.py: constants *)

GENERAL_PREFIXES ==
    <<"info@", "admin@", "office@", "contact@", "enquiries@", "enquiry@",
      "reception@", "registrar@", "school@">>

\* the letters [A-Z] matches under re.IGNORECASE
ReLetterSet == LowerSet \cup UpperSet \cup {"$"}
\* [A-Z0-9._%+-] and [A-Z0-9.-] under re.IGNORECASE
ReLocalSet == ReLetterSet \cup DigitSet \cup {".", "_", "%", "+", "-"}
ReDomainSet == ReLetterSet \cup DigitSet \cup {".", "-"}

INVISIBLE_CHARS == {"~"}
ALLOWED_TLDS == {"au", "com", "org", "net", "edu", "gov", "school", "online"}
PLACEHOLDER_DOMAINS ==
    {"example.com", "test.com", "domain.com", "email.com", "yourdomain.com"}
TRUSTED_GOV_EMAIL_DOMAINS ==
    {"education.vic.gov.au", "edumail.vic.gov.au", "eq.edu.au", "qed.qld.gov.au"}

(* The characters of the argument of the second clean.strip(...), less the  *)
(* backquote, which no string of the model holds.                           *)
PunctuationSet ==
    {".", ",", ";", ":", "!", "?", "\"", "'", "(", ")", "[", "]", "{", "}", "<", ">"}

(* The pattern of EMAIL_RE and EMAIL_EXACT_RE matched against the whole of  *)
(* s.  Neither character class holds the at sign, so s has exactly one; the *)
(* letters after the pattern's escaped dot hold no dot, so that dot is the  *)
(* last one of s.                                                           *)
ReWhole(s) ==
    LET local == BeforeLeftmost(s, "@")
        domain == AfterLeftmost(s, "@")
        body == BeforeLast(domain, ".")
        tail == AfterLast(domain, ".")
    IN  /\ Count(s, "@") = 1
        /\ local # "" /\ AllIn(local, ReLocalSet)
        /\ Contains(domain, ".")
        /\ body # "" /\ AllIn(body, ReDomainSet)
        /\ Len(tail) >= 2 /\ AllIn(tail, ReLetterSet)

\* the pattern without its dot and top-level label
EMAIL_EXACT_RE_match_NoTld(s) ==
    LET local == BeforeLeftmost(s, "@")
        domain == AfterLeftmost(s, "@")
    IN  /\ Count(s, "@") = 1
        /\ local # "" /\ AllIn(local, ReLocalSet)
        /\ domain # "" /\ AllIn(domain, ReDomainSet)

(* EMAIL_EXACT_RE.match(s): "^...$", and "$" matches at the end of the      *)
(* string and also just before a newline that ends the string.              *)
EMAIL_EXACT_RE_match(s) ==
    \/ ReWhole(s)
    \/ EndsWith(s, "\n") /\ ReWhole(SubSeq(s, 1, Len(s) - 1))

(* The loop of _normalise_email_candidate: lstrip("%20") strips the         *)
(* characters "%", "2" and "0", not the token.                              *)
RECURSIVE StripUrlArtifacts(_)
StripUrlArtifacts(clean) ==
    IF StartsWith(clean, "%20") \/ StartsWith(clean, "+")
    THEN StripUrlArtifacts(
            LStrip(LStrip(LStrip(clean, {"%", "2", "0"}), {"+"}), WhitespaceSet))
    ELSE clean

_normalise_email_candidate(value) ==
    LET c1 == RemoveChars(value, INVISIBLE_CHARS)
        c2 == Strip(Lower(Strip(c1, WhitespaceSet)), PunctuationSet)
    IN  StripUrlArtifacts(c2)

---------------------------------------------------------------------------
(* urllib.parse.urlparse(raw).hostname, for a raw without brackets, tabs or *)
(* newlines: the scheme up to the first ":", the netloc after "//" up to    *)
(* the first of "/", "?", "#", less the userinfo and the port.              *)

SchemeCharSet == LowerSet \cup UpperSet \cup DigitSet \cup {"+", "-", "."}

AfterScheme(raw) ==
    LET i == FirstIndex(raw, ":")
    IN  IF /\ i > 1
           /\ Head(raw) \in (LowerSet \cup UpperSet)
           /\ AllIn(SubSeq(raw, 1, i - 1), SchemeCharSet)
        THEN SubSeq(raw, i + 1, Len(raw))
        ELSE raw

RECURSIVE UpToDelimiter(_)
UpToDelimiter(s) ==
    IF s = "" \/ Head(s) \in {"/", "?", "#"} THEN ""
    ELSE Head(s) \o UpToDelimiter(Tail(s))

Netloc(raw) ==
    LET rest == AfterScheme(raw)
    IN  IF StartsWith(rest, "//") THEN UpToDelimiter(SubSeq(rest, 3, Len(rest))) ELSE ""

UrlHostname(raw) ==
    LET hostinfo == AfterLast(Netloc(raw), "@")
    IN  Lower(BeforeLeftmost(hostinfo, ":"))

\* returns PyNone or Str(host)
_extract_hostname(url) ==
    IF url = PyNone \/ Val(url) = "" THEN PyNone
    ELSE LET raw0 == Strip(Val(url), WhitespaceSet)
             raw == IF Contains(raw0, "://") THEN raw0 ELSE "https://" \o raw0
             h0 == Strip(UrlHostname(raw), WhitespaceSet)
             host == IF StartsWith(h0, "www.") THEN SubSeq(h0, 5, Len(h0)) ELSE h0
         IN  IF raw0 = "" \/ host = "" THEN PyNone ELSE Str(host)

AU_SECOND_LEVEL == {".com.au", ".edu.au", ".gov.au", ".org.au", ".net.au"}

_registrable_domain(host) ==
    LET labels == SplitNonEmpty(host, ".")
        joined == Join(labels, ".")
    IN  IF Len(labels) < 2 THEN host
        ELSE IF (\E suf \in AU_SECOND_LEVEL : EndsWith(joined, suf)) /\ Len(labels) >= 3
        THEN Join(LastN(labels, 3), ".")
        ELSE Join(LastN(labels, 2), ".")

_domains_related(email_domain, website_host) ==
    \/ email_domain = website_host
    \/ EndsWith(email_domain, "." \o website_host)
    \/ EndsWith(website_host, "." \o email_domain)
    \/ _registrable_domain(email_domain) = _registrable_domain(website_host)

---------------------------------------------------------------------------
(* classify_public_email *)

\* a length test that also rejects a local part of 2 characters
LocalTooShort_OffByOne(local_part) == Len(local_part) <= 2

\* line 124
LocalTooShort(local_part) == Len(local_part) < 2

(* Lines 116-135: the checks on the normalised string alone.  The reason of *)
(* the first check that rejects it, or "pass".                              *)
SyntaxReason(clean) ==
    LET local_part == BeforeLeftmost(clean, "@")
        domain == AfterLeftmost(clean, "@")
        tld == AfterLast(domain, ".")
    IN  IF clean = "" THEN "empty"
        ELSE IF Contains(clean, " ") \/ Count(clean, "@") # 1 THEN "invalid_format"
        ELSE IF ~EMAIL_EXACT_RE_match(clean) THEN "invalid_format"
        ELSE IF LocalTooShort(local_part) THEN "local_too_short"
        ELSE IF domain \in PLACEHOLDER_DOMAINS THEN "placeholder_domain"
        ELSE IF ~Contains(domain, ".") THEN "missing_tld"
        \* re.fullmatch(r"[a-z]{2,}", tld), without re.IGNORECASE
        ELSE IF ~(Len(tld) >= 2 /\ AllIn(tld, LowerSet)) THEN "invalid_tld_format"
        ELSE IF tld \notin ALLOWED_TLDS THEN "invalid_tld"
        ELSE "pass"

\* a relationship check that knows no trusted domains
RelationshipRejected_NoTrustedDomains(domain, website_url, source) ==
    LET website_host == _extract_hostname(website_url)
    IN  /\ website_host # PyNone
        /\ source \notin {"directory", "mixed"}
        /\ ~_domains_related(domain, Val(website_host))

(* Lines 137-147: whether the domain-relationship check rejects the domain. *)
RelationshipRejected(domain, website_url, source) ==
    LET website_host == _extract_hostname(website_url)
    IN  /\ website_host # PyNone
        /\ source \notin {"directory", "mixed"}
        /\ domain \notin TRUSTED_GOV_EMAIL_DOMAINS
        /\ ~_domains_related(domain, Val(website_host))

\* an outcome that treats free text like every other source
UnrelatedOutcome_AlwaysSuspicious(clean, source) ==
    <<Str(clean), "suspicious", "unrelated_domain">>

(* Lines 148-150: what an address with an unrelated domain gets. *)
UnrelatedOutcome(clean, source) ==
    IF source = "text"
    THEN <<PyNone, "invalid", "unrelated_domain_low_confidence">>
    ELSE <<Str(clean), "suspicious", "unrelated_domain">>

\* email and website_url are PyNone or Str(s); the result is the 3-tuple
classify_public_email(email, website_url, source) ==
    IF email = PyNone \/ Val(email) = "" THEN <<PyNone, "invalid", "empty">>
    ELSE LET clean == _normalise_email_candidate(Val(email))
             reason == SyntaxReason(clean)
         IN  IF reason # "pass" THEN <<PyNone, "invalid", reason>>
             ELSE IF RelationshipRejected(AfterLeftmost(clean, "@"), website_url, source)
             THEN UnrelatedOutcome(clean, source)
             ELSE <<Str(clean), "valid", "ok">>

---------------------------------------------------------------------------
(* utils/cleaner.py.  A DataFrame is [cols, rows]: the column names in      *)
(* order and the rows in order, each row a function from the column names   *)
(* to PyNone, NaN or Str(s).                                                *)

\* cleaner.EMAIL_RE.match(s): the pattern of EMAIL_EXACT_RE, "^" and "$" included
EMAIL_RE_match(s) ==
    \/ ReWhole(s)
    \/ EndsWith(s, "\n") /\ ReWhole(SubSeq(s, 1, Len(s) - 1))

ToUpperChar(c) ==
    IF c \in LowerSet
    THEN LET i == CHOOSE k \in 1..26 : SubSeq(Lowers, k, k) = c
         IN  SubSeq(Uppers, i, i)
    ELSE IF c = "$" THEN "S"
    ELSE c

\* str.title(): a cased character is upper-cased after an uncased one, else lower-cased
RECURSIVE TitleFrom(_, _)
TitleFrom(s, afterCased) ==
    IF s = "" THEN ""
    ELSE LET c == Head(s)
             cased == c \in LowerSet \cup UpperSet \cup {"$"}
         IN  (IF ~cased THEN c
              ELSE IF afterCased THEN ToLowerChar(c) ELSE ToUpperChar(c))
             \o TitleFrom(Tail(s), cased)

Title(s) == TitleFrom(s, FALSE)

\* str(value) of a value that is not None
PyStr(v) == IF v = NaN THEN "nan" ELSE Val(v)

OrNone(s) == IF s = "" THEN PyNone ELSE Str(s)

normalise_suburb(value) ==
    IF value = PyNone THEN PyNone
    ELSE LET clean == Strip(PyStr(value), WhitespaceSet)
         IN  IF clean = "" THEN PyNone ELSE Str(Title(clean))

clean_str(value) ==
    IF value = PyNone THEN PyNone
    ELSE OrNone(Strip(PyStr(value), WhitespaceSet))

\* a validate_email that returns the value as given when the pattern matches
validate_email_ReturnsValue(value) ==
    IF value = PyNone \/ value = NaN THEN PyNone
    ELSE LET email == Lower(Strip(PyStr(value), WhitespaceSet))
         IN  IF email = "" THEN PyNone
             ELSE IF EMAIL_RE_match(email) THEN value ELSE PyNone

validate_email(value) ==
    IF value = PyNone \/ value = NaN THEN PyNone
    ELSE LET email == Lower(Strip(PyStr(value), WhitespaceSet))
         IN  IF email = "" THEN PyNone
             ELSE IF EMAIL_RE_match(email) THEN Str(email) ELSE PyNone

EXPECTED ==
    <<"sector", "school_name", "suburb", "postcode", "phone", "public_email",
      "contact_form_url", "website_url", "source_directory_url", "last_verified_date">>

CLEAN_STR_COLUMNS ==
    {"school_name", "postcode", "phone", "contact_form_url", "website_url",
     "source_directory_url"}

Range(seq) == {seq[i] : i \in 1..Len(seq)}

(* Lines 50-52: the columns the caller's frame lacks are added to it, in    *)
(* the order of expected, holding None.  This is the frame the caller holds *)
(* after the call.                                                          *)
StandardiseArgument(df) ==
    LET missing == SelectSeq(EXPECTED, LAMBDA c : c \notin Range(df.cols))
        cols == df.cols \o missing
    IN  [cols |-> cols,
         rows |-> [i \in 1..Len(df.rows) |->
                     [c \in Range(cols) |->
                        IF c \in Range(df.cols) THEN df.rows[i][c] ELSE PyNone]]]

StandardiseCell(col, value) ==
    IF col \in CLEAN_STR_COLUMNS THEN clean_str(value)
    ELSE IF col = "suburb" THEN normalise_suburb(value)
    ELSE IF col = "public_email" THEN validate_email(value)
    ELSE value

\* lines 54-61: the frame returned
standardise_dataframe(df) ==
    LET full == StandardiseArgument(df)
    IN  [cols |-> EXPECTED,
         rows |-> [i \in 1..Len(full.rows) |->
                     [c \in Range(EXPECTED) |-> StandardiseCell(c, full.rows[i][c])]]]

(* The order of str values: code point by code point.  The characters of    *)
(* the model in code point order, the two stand-ins last.                   *)
CodeOrder ==
    "\t\n !\"#%&'()*+,-./0123456789:;<=>?@ABCDEFGHIJKLMNOPQRSTUVWXYZ[\\]^_abcdefghijklmnopqrstuvwxyz{|}$~"

Ord(c) == CHOOSE k \in 1..Len(CodeOrder) : SubSeq(CodeOrder, k, k) = c

RECURSIVE StrLess(_, _)
StrLess(a, b) ==
    IF b = "" THEN FALSE
    ELSE IF a = "" THEN TRUE
    ELSE IF Head(a) = Head(b) THEN StrLess(Tail(a), Tail(b))
    ELSE Ord(Head(a)) < Ord(Head(b))

\* series.fillna("").str.strip().str.lower()
KeyOf(value) ==
    IF value = PyNone \/ value = NaN THEN ""
    ELSE Lower(Strip(Val(value), WhitespaceSet))

\* a flag that is 0 for every row
HasEmail_Never(row) == 0

\* a key that leaves the suburb out
DedupeKey_NameOnly(row) == <<KeyOf(row["school_name"])>>

\* lines 66-67 and the subset of drop_duplicates: (_name_key, _suburb_key)
DedupeKey(row) == <<KeyOf(row["school_name"]), KeyOf(row["suburb"])>>

\* line 68: public_email.notna().astype(int)
HasEmail(row) == IF row["public_email"] = PyNone \/ row["public_email"] = NaN THEN 0 ELSE 1

(* Line 70: whether row a sorts strictly before row b under                 *)
(* [_name_key, _suburb_key, _has_email], ascending=[True, True, False].     *)
SortsBefore(a, b) ==
    LET na == KeyOf(a["school_name"])
        nb == KeyOf(b["school_name"])
        sa == KeyOf(a["suburb"])
        sb == KeyOf(b["suburb"])
    IN  \/ StrLess(na, nb)
        \/ na = nb /\ StrLess(sa, sb)
        \/ na = nb /\ sa = sb /\ HasEmail(a) > HasEmail(b)

\* row goes after every row of sorted that does not sort after it
RECURSIVE InsertRow(_, _)
InsertRow(row, sorted) ==
    IF sorted = << >> THEN <<row>>
    ELSE IF SortsBefore(row, Head(sorted)) THEN <<row>> \o sorted
    ELSE <<Head(sorted)>> \o InsertRow(row, Tail(sorted))

\* sort_values on several columns is a stable sort
RECURSIVE SortRows(_)
SortRows(rows) ==
    IF rows = << >> THEN << >>
    ELSE InsertRow(rows[Len(rows)], SortRows(SubSeq(rows, 1, Len(rows) - 1)))

\* drop_duplicates(subset=[_name_key, _suburb_key], keep="first")
RECURSIVE DropDuplicates(_, _)
DropDuplicates(rows, seen) ==
    IF rows = << >> THEN << >>
    ELSE IF DedupeKey(Head(rows)) \in seen THEN DropDuplicates(Tail(rows), seen)
    ELSE <<Head(rows)>> \o DropDuplicates(Tail(rows), seen \cup {DedupeKey(Head(rows))})

\* the three helper columns are added to a copy and dropped from the result
dedupe_prefer_email(df) ==
    [cols |-> df.cols, rows |-> DropDuplicates(SortRows(df.rows), {})]

---------------------------------------------------------------------------
(* The frames the row operations are given *)

\* how many rows a frame holds
MaxRows == 3

\* date.today().isoformat() of the run
Today == Str("2026-11-06")

RowOf(name, suburb, email, phone) ==
    [c \in Range(EXPECTED) |->
        CASE c = "sector" -> Str("government")
          [] c = "school_name" -> name
          [] c = "suburb" -> suburb
          [] c = "postcode" -> Str("3101")
          [] c = "phone" -> phone
          [] c = "public_email" -> email
          [] c = "contact_form_url" -> NaN
          [] c = "website_url" -> Str(" https://ab.au")
          [] c = "source_directory_url" -> Str("https://d.au")
          [] c = "last_verified_date" -> Str("2020-01-01")]

InputRows ==
    { RowOf(Str("Ab"), Str("kew"), NaN, Str("1")),
      RowOf(Str(" ab"), Str("Kew "), Str(" AB@x.au "), Str("2")),
      RowOf(Str("Ab"), Str("kew"), Str("ab@x.xyz"), Str("3")),
      RowOf(Str("Ab"), Str("box hill"), Str("a@b"), Str("4")),
      RowOf(Str("Ac"), NaN, Str("cd@x.au"), Str("5")),
      RowOf(NaN, PyNone, Str(""), PyNone),
      RowOf(Str("AC"), Str(""), Str("ab@x.$$"), Str("7")),
      RowOf(Str("aB "), Str("KEW"), Str("ef@x.au"), Str("8")),
      RowOf(Str("Ac"), Str("Kew"), NaN, Str("9")) }

\* the columns of a frame read from the sector files, and of one that lacks two
InputColumns ==
    { EXPECTED,
      <<"school_name", "suburb", "phone", "public_email", "sector", "postcode",
        "website_url", "source_directory_url">> }

Restrict(row, cols) == [c \in Range(cols) |-> row[c]]

InputFrames ==
    {[cols |-> cols, rows |-> [i \in 1..Len(rows) |-> Restrict(rows[i], cols)]] :
        cols \in InputColumns, rows \in SeqsUpTo(InputRows, MaxRows)}

---------------------------------------------------------------------------
(* The inputs of the classifier *)

\* how many leading tokens a harvested string carries before the address
MaxPrefixTokens == 2

PrefixTokens == {"%20", "+", ".", " ", "2", "<", "~"}

RECURSIVE Prefixes(_)
Prefixes(n) ==
    IF n = 0 THEN {""}
    ELSE LET shorter == Prefixes(n - 1)
         IN  shorter \cup {t \o p : t \in PrefixTokens, p \in shorter}

Trailers == {"", ".", "\n.", " ", ">"}

Addresses ==
    { "", "info@school.edu.au", "ab@school.edu.au", "a@school.edu.au",
      "AB@School.Edu.AU", "john.smith@school.edu.au",
      "ab@example.com", "a@example.com", "ab@test.com",
      "ab@school", "a@b", "@school", "ab@school.xyz", "ab@school.e1",
      "ab@school.au1",
      "ab@@school.edu.au", "ab school.edu.au", "a b@school.edu.au",
      "ab@school.edu.au\n", "ab@.au", "ab@school.online",
      "office@education.vic.gov.au", "ab@eq.edu.au", "ab@other.org.au" }

RelationAddresses ==
    { "info@school.edu.au", "ab@mail.school.edu.au", "ab@other.org.au",
      "ab@other.edu.au", "ab@edu.au", "ab@school.com", "a@other.org.au",
      "ab@example.com", "ab@other.xyz", "ab@other", ".ab@other.org.au>",
      "office@education.vic.gov.au", "ab@eq.edu.au", "AB@Edumail.Vic.Gov.Au",
      "ab@qed.qld.gov.au", "ab@vic.gov.au" }

WebsiteUrls ==
    { PyNone, Str(""), Str(" "), Str("https://"),
      Str("https://www.school.edu.au/contact"), Str("school.edu.au"),
      Str("HTTP://Www.School.edu.au:8080/a?b"), Str("https://myschool.vic.edu.au"),
      Str("https://other.org.au#top"), Str("www.other.com.au/x"),
      Str("https://user@sub.school.edu.au") }

Sources == {"text", "mailto", "jsonld", "cloudflare", "directory", "mixed"}

NoResult == << >>

ClassifyIdle ==
    [pc |-> "idle", email |-> PyNone, website_url |-> PyNone, source |-> "text",
     result |-> NoResult]

ClassifyCalls ==
    {[pc |-> "call", email |-> Str(p \o a \o t), website_url |-> PyNone,
      source |-> "text", result |-> NoResult] :
        p \in Prefixes(MaxPrefixTokens), a \in Addresses, t \in Trailers}
    \cup
    {[pc |-> "call", email |-> e, website_url |-> u, source |-> s,
      result |-> NoResult] :
        e \in {PyNone} \cup {Str(a) : a \in RelationAddresses},
        u \in WebsiteUrls, s \in Sources}

ChooseIdle ==
    [pc |-> "idle", emails |-> << >>, website_url |-> PyNone, source |-> "text",
     result |-> NoResult]

FrameIdle ==
    [pc |-> "idle", before |-> NoResult, arg |-> NoResult, df |-> NoResult,
     saved |-> NoResult]

CampaignIdle == [pc |-> "idle"]

ExtractIdle == [pc |-> "idle"]

ClientIdle == [pc |-> "none"]

InitClassify ==
    /\ client = ClientIdle
    /\ classify \in ClassifyCalls
    /\ choose = ChooseIdle
    /\ frame = FrameIdle
    /\ campaign = CampaignIdle
    /\ extract = ExtractIdle

(* One call of classify_public_email. *)
Classify ==
    /\ classify.pc = "call"
    /\ classify' = [classify EXCEPT
            !.pc = "done",
            !.result = classify_public_email(classify.email, classify.website_url,
                                             classify.source)]
    /\ UNCHANGED <<choose, frame, campaign, extract, client>>

NextClassify == Classify

SpecClassify == InitClassify /\ [][NextClassify]_vars

---------------------------------------------------------------------------
(* choose_general_email *)

\* a filter that tells "A" from "a"
RECURSIVE UniqueFrom_CaseSensitive(_, _)
UniqueFrom_CaseSensitive(values, seen) ==
    IF values = << >> THEN << >>
    ELSE LET v == Strip(Head(values), WhitespaceSet)
         IN  IF v = "" \/ v \in seen
             THEN UniqueFrom_CaseSensitive(Tail(values), seen)
             ELSE <<v>> \o UniqueFrom_CaseSensitive(Tail(values), seen \cup {v})

RECURSIVE UniqueFrom(_, _)
UniqueFrom(values, seen) ==
    IF values = << >> THEN << >>
    ELSE LET v == Strip(Head(values), WhitespaceSet)
             key == Lower(v)
         IN  IF key = "" \/ key \in seen
             THEN UniqueFrom(Tail(values), seen)
             ELSE <<v>> \o UniqueFrom(Tail(values), seen \cup {key})

\* values is a sequence of strings
_unique(values) == UniqueFrom(values, {})

\* (e for e in emails if e): None and the empty string are dropped
RECURSIVE Truthy(_)
Truthy(emails) ==
    IF emails = << >> THEN << >>
    ELSE IF Head(emails) = PyNone \/ Val(Head(emails)) = "" THEN Truthy(Tail(emails))
    ELSE <<Val(Head(emails))>> \o Truthy(Tail(emails))

\* a selector that keeps every candidate that is not invalid, suspicious ones too
RECURSIVE Validated_KeepsSuspicious(_, _, _)
Validated_KeepsSuspicious(clean, website_url, source) ==
    IF clean = << >> THEN << >>
    ELSE LET r == classify_public_email(Str(Head(clean)), website_url, source)
             rest == Validated_KeepsSuspicious(Tail(clean), website_url, source)
         IN  IF r[1] # PyNone /\ r[2] # "invalid" THEN <<Val(r[1])>> \o rest ELSE rest

(* Lines 227-234: the normalised addresses of the candidates classified     *)
(* valid, in order.                                                         *)
RECURSIVE Validated(_, _, _)
Validated(clean, website_url, source) ==
    IF clean = << >> THEN << >>
    ELSE LET r == classify_public_email(Str(Head(clean)), website_url, source)
             rest == Validated(Tail(clean), website_url, source)
         IN  IF r[1] # PyNone /\ r[2] = "valid" THEN <<Val(r[1])>> \o rest ELSE rest

\* a prefix test that stops one short of the end of GENERAL_PREFIXES
IsGeneral_SkipsLast(e) ==
    \E i \in 1..(Len(GENERAL_PREFIXES) - 1) : StartsWith(Lower(e), GENERAL_PREFIXES[i])

\* e.lower().startswith(GENERAL_PREFIXES)
IsGeneral(e) ==
    \E i \in 1..Len(GENERAL_PREFIXES) : StartsWith(Lower(e), GENERAL_PREFIXES[i])

\* the length of the longest prefix of s made of characters of set
RECURSIVE RunLength(_, _)
RunLength(s, set) ==
    IF s # "" /\ Head(s) \in set THEN 1 + RunLength(Tail(s), set) ELSE 0

\* the personal pattern with segments of 2 letters and more
IsPersonalStyle_TwoLetters(e) ==
    LET low == Lower(e)
        n1 == RunLength(low, ReLetterSet)
        rest == SubSeq(low, n1 + 2, Len(low))
        n2 == RunLength(rest, ReLetterSet)
    IN  /\ n1 >= 2
        /\ SubSeq(low, n1 + 1, n1 + 1) = "."
        /\ n2 >= 2
        /\ SubSeq(rest, n2 + 1, n2 + 1) = "@"

(* PERSONAL_STYLE_RE.match(e.lower()): at least 3 letters, a dot, at least  *)
(* 3 letters, an at sign, from the start of the string.                     *)
IsPersonalStyle(e) ==
    LET low == Lower(e)
        n1 == RunLength(low, ReLetterSet)
        rest == SubSeq(low, n1 + 2, Len(low))
        n2 == RunLength(rest, ReLetterSet)
    IN  /\ n1 >= 3
        /\ SubSeq(low, n1 + 1, n1 + 1) = "."
        /\ n2 >= 3
        /\ SubSeq(rest, n2 + 1, n2 + 1) = "@"

\* lines 236-248: the choice among the candidates classified valid
Chosen(candidates) ==
    LET preferred == SelectSeq(candidates, IsGeneral)
        non_personal == SelectSeq(candidates, LAMBDA e : ~IsPersonalStyle(e))
    IN  IF candidates = << >> THEN PyNone
        ELSE IF preferred # << >> THEN Str(Lower(preferred[1]))
        ELSE IF non_personal # << >> THEN Str(Lower(non_personal[1]))
        ELSE Str(Lower(candidates[1]))

\* emails is a sequence of PyNone and Str(s); the result is PyNone or Str(s)
choose_general_email(emails, website_url, source) ==
    Chosen(Validated(_unique(Truthy(emails)), website_url, source))

---------------------------------------------------------------------------
(* The inputs of the selector *)

\* how many candidates one call is given
MaxCandidates == 3

Candidates ==
    { PyNone, Str("john.smith@school.edu.au"),
      Str("info@school.edu.au"), Str(" INFO@School.edu.au"),
      Str("school@school.edu.au"), Str("infodesk@school.edu.au"),
      Str("ab.smith@school.edu.au"), Str("admin@other.org.au"),
      Str("a@school.edu.au") }

ChooseContexts ==
    { <<PyNone, "text">>,
      <<Str("https://www.school.edu.au/contact"), "mailto">>,
      <<Str("https://www.school.edu.au/contact"), "text">> }

ChooseCalls ==
    {[pc |-> "call", emails |-> es, website_url |-> c[1], source |-> c[2],
      result |-> NoResult] :
        es \in SeqsUpTo(Candidates, MaxCandidates), c \in ChooseContexts}

InitChoose ==
    /\ client = ClientIdle
    /\ classify = ClassifyIdle
    /\ choose \in ChooseCalls
    /\ frame = FrameIdle
    /\ campaign = CampaignIdle
    /\ extract = ExtractIdle

(* One call of choose_general_email. *)
Choose ==
    /\ choose.pc = "call"
    /\ choose' = [choose EXCEPT
            !.pc = "done",
            !.result = choose_general_email(choose.emails, choose.website_url,
                                            choose.source)]
    /\ UNCHANGED <<classify, frame, campaign, extract, client>>

NextChoose == Choose

SpecChoose == InitChoose /\ [][NextChoose]_vars

---------------------------------------------------------------------------
(* 04_merge_dedupe.py main, from the concatenated frame on, and a call of    *)
(* dedupe_prefer_email on a frame as loaded.  frame.df is the frame the      *)
(* caller holds in merged; frame.before is the argument of the last call as  *)
(* it was when the call was made, frame.arg the same frame after the call.   *)

InitRows ==
    /\ client = ClientIdle
    /\ classify = ClassifyIdle
    /\ choose = ChooseIdle
    /\ frame \in {[pc |-> "loaded", before |-> NoResult, arg |-> NoResult, df |-> f,
                   saved |-> NoResult] : f \in InputFrames}
    /\ campaign = CampaignIdle
    /\ extract = ExtractIdle

\* lines 57-59: nothing to merge
ReturnEmpty ==
    /\ frame.pc = "loaded"
    /\ frame.df.rows = << >>
    /\ frame' = [frame EXCEPT !.pc = "returned"]
    /\ UNCHANGED <<classify, choose, campaign, extract, client>>

\* line 61
Standardise ==
    /\ frame.pc = "loaded"
    /\ frame.df.rows # << >>
    /\ frame' = [frame EXCEPT
            !.pc = "standardised",
            !.before = frame.df,
            !.arg = StandardiseArgument(frame.df),
            !.df = standardise_dataframe(frame.df)]
    /\ UNCHANGED <<classify, choose, campaign, extract, client>>

\* line 62
StampDate ==
    /\ frame.pc = "standardised"
    /\ frame' = [frame EXCEPT
            !.pc = "stamped",
            !.df = [cols |-> frame.df.cols,
                    rows |-> [i \in 1..Len(frame.df.rows) |->
                                [frame.df.rows[i] EXCEPT !["last_verified_date"] = Today]]]]
    /\ UNCHANGED <<classify, choose, campaign, extract, client>>

\* line 63
Dedupe ==
    /\ frame.pc = "stamped"
    /\ frame' = [frame EXCEPT
            !.pc = "deduped",
            !.before = frame.df,
            !.arg = frame.df,
            !.df = dedupe_prefer_email(frame.df)]
    /\ UNCHANGED <<classify, choose, campaign, extract, client>>

\* lines 65-68: merged is written to the CSV file and the SQLite table
Save ==
    /\ frame.pc = "deduped"
    /\ frame' = [frame EXCEPT !.pc = "saved", !.saved = frame.df]
    /\ UNCHANGED <<classify, choose, campaign, extract, client>>

(* load_or_empty: read_csv with dtype=str gives a str or NaN in every cell,   *)
(* NaN for an empty one.                                                    *)
ReadByCsv(df) ==
    \A i \in 1..Len(df.rows) : \A c \in Range(df.cols) :
        df.rows[i][c] \notin {PyNone, Str("")}

\* dedupe_prefer_email called on a frame as read, before it is standardised
DedupeCall ==
    /\ frame.pc = "loaded"
    /\ ReadByCsv(frame.df)
    /\ {"school_name", "suburb", "public_email"} \subseteq Range(frame.df.cols)
    /\ frame' = [frame EXCEPT
            !.pc = "dedupe_returned",
            !.before = frame.df,
            !.arg = frame.df,
            !.df = dedupe_prefer_email(frame.df)]
    /\ UNCHANGED <<classify, choose, campaign, extract, client>>

NextRows ==
    \/ ReturnEmpty
    \/ Standardise
    \/ StampDate
    \/ Dedupe
    \/ Save
    \/ DedupeCall

SpecRows == InitRows /\ [][NextRows]_vars

---------------------------------------------------------------------------
(* The contact file of one state and the passes over it: the enrichment    *)
(* loops of 12_vic_enrich_contacts.py and 24_tas_enrich_contacts.py,       *)
(* clean_csv of 22_wa_clean_emails.py and clean_state of                   *)
(* 18_clean_published_state_emails.py.  A row holds the columns the passes *)
(* read and write.  campaign.csv is the file, campaign.df the frame of the *)
(* running pass, campaign.sites what is outside the program for each row:  *)
(* the website the official indexes give the school, and what              *)
(* enrich_from_homepage returns for its website.                           *)

\* ensure_http of both enrichment scripts
ensure_http(url) ==
    IF url = PyNone \/ url = Str("") THEN PyNone
    ELSE LET s == Strip(PyStr(url), WhitespaceSet)
         IN  IF s = "" \/ Lower(s) = "nan" THEN PyNone
             ELSE IF StartsWith(s, "//") THEN Str("https:" \o s)
             ELSE IF StartsWith(s, "http://") \/ StartsWith(s, "https://") THEN Str(s)
             ELSE Str("https://" \o s)

\* str(row.get(col) or "").strip(): NaN is truthy and reads "nan"
CellText(v) == IF v = PyNone THEN "" ELSE Strip(PyStr(v), WhitespaceSet)

\* str(row.get("website_checked") or "").strip().lower() == "true"
IsChecked(row) == Lower(CellText(row.website_checked)) = "true"

(* is_valid_email of 22_wa_clean_emails.py, which has its own copies of     *)
(* ALLOWED_TLDS, EMAIL_EXACT_RE and INVISIBLE_CHARS_RE, equal to those of   *)
(* utils/extractors.py.                                                     *)
is_valid_email(email) ==
    IF email = PyNone \/ email = Str("") THEN FALSE
    ELSE LET clean == Strip(Lower(Strip(RemoveChars(PyStr(email), INVISIBLE_CHARS),
                                        WhitespaceSet)), PunctuationSet)
             local == BeforeLeftmost(clean, "@")
             domain == AfterLeftmost(clean, "@")
             tld == AfterLast(domain, ".")
         IN  /\ clean # "" /\ ~Contains(clean, " ") /\ Count(clean, "@") = 1
             /\ EMAIL_EXACT_RE_match(clean)
             /\ Len(local) >= 2
             /\ Contains(domain, ".")
             /\ Len(tld) >= 2 /\ AllIn(tld, LowerSet)
             /\ tld \in ALLOWED_TLDS

\* some of the strings read_csv reads as NaN
NaStrings == {"", "nan", "NaN", "None", "null", "NULL", "NA", "N/A", "n/a"}

\* a cell written by to_csv and read by read_csv(dtype=str)
CsvCell(v) == IF v \in {PyNone, NaN} \/ Val(v) \in NaStrings THEN NaN ELSE v

CsvRow(row) == [c \in DOMAIN row |-> CsvCell(row[c])]

\* df.to_csv(path, index=False) and pd.read_csv(path, dtype=str)
CsvOf(df) == [i \in 1..Len(df) |-> CsvRow(df[i])]

\* 22_wa_clean_emails.py lines 59-63, not a dry run
CleanRow(row) ==
    LET email == CellText(row.public_email)
    IN  IF email # "" /\ Lower(email) # "nan" /\ ~is_valid_email(Str(email))
        THEN [row EXCEPT !.public_email = PyNone, !.website_checked = Str("false")]
        ELSE row

\* a cleaning of a row that clears the contact form too
CleanStateRow_ClearsForm(row) ==
    [row EXCEPT !.public_email = Str(""), !.contact_form_url = Str("")]

(* 18_clean_published_state_emails.py lines 59-73 for one row: the address  *)
(* classified with source "mixed" is kept normalised when valid and blanked *)
(* otherwise, and the two diagnostics columns are set.                      *)
CleanStateRow(row) ==
    LET website == CellText(row.website_url)
        r == classify_public_email(Str(CellText(row.public_email)),
                                   IF website = "" THEN PyNone ELSE Str(website), "mixed")
    IN  [c \in DOMAIN row \cup {"email_validation_status", "email_validation_reason"} |->
            CASE c = "public_email" -> IF r[2] = "valid" THEN r[1] ELSE Str("")
              [] c = "email_validation_status" -> Str(r[2])
              [] c = "email_validation_reason" -> Str(r[3])
              [] OTHER -> row[c]]

\* 12_vic_enrich_contacts.py lines 256-277: the website of the official indexes
MapOfficial(row, site) ==
    IF site.official # PyNone THEN [row EXCEPT !.website_url = site.official] ELSE row

\* 24_tas_enrich_contacts.py lines 142-143
TasPrepare(row) ==
    [row EXCEPT
        !.website_checked = IF @ \in {PyNone, NaN} THEN Str("false") ELSE @,
        !.website_url = ensure_http(@)]

\* a loop that tries every row that has a website, checked or not
Fetchable_IgnoresChecked(row) == ensure_http(row.website_url) # PyNone

\* whether the loop body fetches the row: lines 284-289 and 158-162
Fetchable(row) == ensure_http(row.website_url) # PyNone /\ ~IsChecked(row)

\* email and (not existing or existing.lower() == "nan")
Fills(found, existing) ==
    /\ found \notin {PyNone, Str("")}
    /\ CellText(existing) = "" \/ Lower(CellText(existing)) = "nan"

\* a loop body that marks the row only when the fetch raised nothing
Enriched_ErrorLeavesUnchecked(row, site) ==
    IF site.raises THEN row
    ELSE [row EXCEPT
            !.public_email = IF Fills(site.email, @) THEN site.email ELSE @,
            !.contact_form_url = IF Fills(site.form, @) THEN site.form ELSE @,
            !.website_checked = Str("true")]

\* lines 297-307 and 169-179: the row after its website was tried
Enriched(row, site) ==
    IF site.raises THEN [row EXCEPT !.website_checked = Str("true")]
    ELSE [row EXCEPT
            !.public_email = IF Fills(site.email, @) THEN site.email ELSE @,
            !.contact_form_url = IF Fills(site.form, @) THEN site.form ELSE @,
            !.website_checked = Str("true")]

\* how many rows the contact file holds
MaxSchools == 2

\* how many passes are run over the file
MaxPasses == 2

FileRow(website, checked, email, form) ==
    [website_url |-> website, website_checked |-> checked, public_email |-> email,
     contact_form_url |-> form]

SiteOf(official, raises, email, form) ==
    [official |-> official, raises |-> raises, email |-> email, form |-> form]

\* a row of the file with what is outside the program for it
Schools ==
    { <<FileRow(Str("s.edu.au"), NaN, NaN, NaN),
        SiteOf(PyNone, FALSE, Str("office@s.edu.au"), PyNone)>>,
      <<FileRow(Str("https://s.edu.au"), Str("true"), Str("educ@ion.we"), NaN),
        SiteOf(PyNone, FALSE, Str("office@s.edu.au"), Str("https://s.edu.au/contact"))>>,
      <<FileRow(Str("https://s.edu.au"), Str(" TRUE"), Str("info@s.edu.au"), NaN),
        SiteOf(PyNone, FALSE, PyNone, PyNone)>>,
      <<FileRow(NaN, Str("false"), Str("innov@ion.the"), NaN),
        SiteOf(Str("https://t.edu.au"), FALSE, PyNone, Str("https://t.edu.au/form"))>>,
      <<FileRow(Str("//s.edu.au"), Str("false"), NaN, Str("https://s.edu.au/old")),
        SiteOf(PyNone, TRUE, PyNone, PyNone)>>,
      <<FileRow(NaN, Str("true"), NaN, NaN),
        SiteOf(PyNone, FALSE, PyNone, PyNone)>> }

CampaignStarts ==
    {[pc |-> "ready", script |-> "none", passes |-> 0,
      csv |-> [k \in 1..Len(ss) |-> ss[k][1]],
      sites |-> [k \in 1..Len(ss) |-> ss[k][2]],
      df |-> [k \in 1..Len(ss) |-> ss[k][1]],
      before |-> [k \in 1..Len(ss) |-> ss[k][1]],
      i |-> 1, attempted |-> 0, processed |-> 0, max_sites |-> 0,
      checkpoint_every |-> 1, fetched |-> {},
      last_verified_date |-> Str("2020-01-01")] : ss \in SeqsUpTo(Schools, MaxSchools)}

InitEnrich ==
    /\ client = ClientIdle
    /\ classify = ClassifyIdle
    /\ choose = ChooseIdle
    /\ frame = FrameIdle
    /\ campaign \in CampaignStarts
    /\ extract = ExtractIdle

\* the finally clause of the enrichment scripts: stamp, save
Finished(c) ==
    [c EXCEPT !.pc = "ready", !.passes = @ + 1,
              !.last_verified_date = Today, !.csv = CsvOf(c.df)]

\* 12_vic_enrich_contacts.py main up to the enrichment loop
StartVic ==
    /\ campaign.pc = "ready" /\ campaign.passes < MaxPasses
    /\ \E max_sites \in {0, 1}, checkpoint_every \in {1, 2} :
         campaign' = [campaign EXCEPT
            !.pc = "enrich", !.script = "vic",
            !.before = campaign.csv,
            !.df = [k \in 1..Len(campaign.csv) |->
                        MapOfficial(campaign.csv[k], campaign.sites[k])],
            !.i = 1, !.attempted = 0, !.processed = 0, !.fetched = {},
            !.max_sites = max_sites, !.checkpoint_every = checkpoint_every]
    /\ UNCHANGED <<classify, choose, frame, extract, client>>

\* 24_tas_enrich_contacts.py main up to the enrichment loop
StartTas ==
    /\ campaign.pc = "ready" /\ campaign.passes < MaxPasses
    /\ \E max_sites \in {0, 1}, checkpoint_every \in {1, 2} :
         campaign' = [campaign EXCEPT
            !.pc = "enrich", !.script = "tas",
            !.before = campaign.csv,
            !.df = [k \in 1..Len(campaign.csv) |-> TasPrepare(campaign.csv[k])],
            !.i = 1, !.attempted = 0, !.processed = 0, !.fetched = {},
            !.max_sites = max_sites, !.checkpoint_every = checkpoint_every]
    /\ UNCHANGED <<classify, choose, frame, extract, client>>

(* One turn of the enrichment loop, for row campaign.i: the row is skipped, *)
(* or the loop breaks at max_sites and the finally clause runs, or the      *)
(* website is tried and, every checkpoint_every tries, the file saved.      *)
EnrichRow ==
    /\ campaign.pc = "enrich" /\ campaign.i <= Len(campaign.df)
    /\ LET k == campaign.i
           row == campaign.df[k]
           attempted == campaign.attempted + 1
           tried == [campaign EXCEPT
                        !.df[k] = Enriched(row, campaign.sites[k]),
                        !.fetched = @ \cup {k},
                        !.attempted = attempted,
                        !.processed = IF campaign.sites[k].raises THEN @ ELSE @ + 1,
                        !.i = k + 1]
       IN  campaign' =
             IF ~Fetchable(row) THEN [campaign EXCEPT !.i = k + 1]
             ELSE IF campaign.max_sites # 0 /\ campaign.attempted >= campaign.max_sites
             THEN Finished(campaign)
             ELSE IF attempted % campaign.checkpoint_every = 0
             THEN [tried EXCEPT !.last_verified_date = Today, !.csv = CsvOf(tried.df)]
             ELSE tried
    /\ UNCHANGED <<classify, choose, frame, extract, client>>

\* the loop ran out of rows: the finally clause
EnrichEnd ==
    /\ campaign.pc = "enrich" /\ campaign.i > Len(campaign.df)
    /\ campaign' = Finished(campaign)
    /\ UNCHANGED <<classify, choose, frame, extract, client>>

\* KeyboardInterrupt inside the loop: the finally clause
Interrupt ==
    /\ campaign.pc = "enrich" /\ campaign.i <= Len(campaign.df)
    /\ campaign' = Finished(campaign)
    /\ UNCHANGED <<classify, choose, frame, extract, client>>

\* 22_wa_clean_emails.py clean_csv(dry_run)
CleanCsv ==
    /\ campaign.pc = "ready" /\ campaign.passes < MaxPasses
    /\ \E dry_run \in BOOLEAN :
         LET df == IF dry_run THEN campaign.csv
                   ELSE [k \in 1..Len(campaign.csv) |-> CleanRow(campaign.csv[k])]
         IN  campaign' = [campaign EXCEPT
                !.script = "clean", !.passes = @ + 1,
                !.before = campaign.csv,
                !.df = df,
                !.csv = IF dry_run THEN campaign.csv ELSE CsvOf(df)]
    /\ UNCHANGED <<classify, choose, frame, extract, client>>

\* 18_clean_published_state_emails.py clean_state(state) on the file
CleanState ==
    /\ campaign.pc = "ready" /\ campaign.passes < MaxPasses
    /\ LET df == [k \in 1..Len(campaign.csv) |-> CleanStateRow(campaign.csv[k])]
       IN  campaign' = [campaign EXCEPT
              !.script = "state", !.passes = @ + 1,
              !.before = campaign.csv,
              !.df = df,
              !.csv = CsvOf(df)]
    /\ UNCHANGED <<classify, choose, frame, extract, client>>

NextEnrich ==
    \/ StartVic
    \/ StartTas
    \/ EnrichRow
    \/ EnrichEnd
    \/ Interrupt
    \/ CleanCsv
    \/ CleanState

SpecEnrich == InitEnrich /\ [][NextEnrich]_vars

---------------------------------------------------------------------------
(* The extractors of utils/extractors.py over a page.  The three patterns   *)
(* of extract_emails_from_text are matched as re.findall matches them:      *)
(* from left to right, each match starting at the first position where the  *)
(* pattern matches and the scan resuming after its last character.          *)

CharAt(s, i) == IF i \in 1..Len(s) THEN SubSeq(s, i, i) ELSE ""

From(s, i) == IF i > Len(s) THEN "" ELSE SubSeq(s, i, Len(s))

\* the characters of s at the positions a..b that s has
Mid(s, a, b) == IF a > Len(s) THEN "" ELSE SubSeq(s, a, IF b > Len(s) THEN Len(s) ELSE b)

\* \w
WordSet == ReLetterSet \cup DigitSet \cup {"_"}

\* \b between the characters i - 1 and i
Boundary(s, i) == (CharAt(s, i - 1) \in WordSet) # (CharAt(s, i) \in WordSet)

\* \s* from position p: the position after the whitespace
SkipWs(s, p) == p + RunLength(From(s, p), WhitespaceSet)

(* EMAIL_RE at position i, line 21: the last position of the match, 0 when  *)
(* there is none.  The domain class is greedy and gives characters back     *)
(* until a dot is followed by at least two letters and a word boundary.     *)
EmailReEnd(s, i) ==
    LET n == RunLength(From(s, i), ReLocalSet)
        d0 == i + n + 1
        m == RunLength(From(s, d0), ReDomainSet)
        Tld(q) == RunLength(From(s, q + 1), ReLetterSet)
        Q == {q \in (d0 + 1)..(d0 + m - 1) :
                /\ CharAt(s, q) = "."
                /\ Tld(q) >= 2
                /\ CharAt(s, q + Tld(q) + 1) \notin WordSet}
    IN  IF Boundary(s, i) /\ n >= 1 /\ CharAt(s, i + n) = "@" /\ Q # {}
        THEN LET q == CHOOSE x \in Q : \A y \in Q : y <= x IN q + Tld(q)
        ELSE 0

\* the leftmost of a non-empty set of positions
Leftmost(S) == CHOOSE i \in S : \A j \in S : i <= j

\* EMAIL_RE.findall(text) from position i on, line 158
RECURSIVE EmailFindall(_, _)
EmailFindall(s, i) ==
    LET starts == {j \in i..Len(s) : EmailReEnd(s, j) > 0}
    IN  IF starts = {} THEN << >>
        ELSE LET j == Leftmost(starts)
             IN  <<SubSeq(s, j, EmailReEnd(s, j))>> \o EmailFindall(s, EmailReEnd(s, j) + 1)

OpenBrackets == {"(", "[", "{"}
CloseBrackets == {")", "]", "}"}

(* OBFUSCATED_EMAIL_BRACKET_RE at position i, lines 26-29: the last         *)
(* position of the match and its three groups, <<0>> when there is none.    *)
(* The pattern has one bracketed "at" and one bracketed "dot".              *)
BracketMatch(s, i) ==
    LET n == RunLength(From(s, i), ReLocalSet)
        p1 == SkipWs(s, i + n)
        p2 == SkipWs(s, p1 + 1)
        p3 == SkipWs(s, p2 + 2)
        p4 == SkipWs(s, p3 + 1)
        m == RunLength(From(s, p4), ReDomainSet)
        p5 == SkipWs(s, p4 + m)
        p6 == SkipWs(s, p5 + 1)
        p7 == SkipWs(s, p6 + 3)
        p8 == SkipWs(s, p7 + 1)
        t == RunLength(From(s, p8), ReLetterSet)
    IN  IF /\ Boundary(s, i)
           /\ n >= 2
           /\ CharAt(s, p1) \in OpenBrackets
           /\ Lower(Mid(s, p2, p2 + 1)) = "at"
           /\ CharAt(s, p3) \in CloseBrackets
           /\ m >= 2
           /\ CharAt(s, p5) \in OpenBrackets
           /\ Lower(Mid(s, p6, p6 + 2)) = "dot"
           /\ CharAt(s, p7) \in CloseBrackets
           /\ t >= 2
           /\ CharAt(s, p8 + t) \notin WordSet
        THEN <<p8 + t - 1, SubSeq(s, i, i + n - 1), SubSeq(s, p4, p4 + m - 1),
               SubSeq(s, p8, p8 + t - 1)>>
        ELSE <<0>>

\* lines 159-160: f"{local}@{domain}.{tld}" for every match of the bracket pattern
RECURSIVE BracketFindall(_, _)
BracketFindall(s, i) ==
    LET starts == {j \in i..Len(s) : BracketMatch(s, j)[1] > 0}
    IN  IF starts = {} THEN << >>
        ELSE LET g == BracketMatch(s, Leftmost(starts))
             IN  <<g[2] \o "@" \o g[3] \o "." \o g[4]>> \o BracketFindall(s, g[1] + 1)

(* OBFUSCATED_EMAIL_WORD_RE at position i, lines 30-33: as BracketMatch,    *)
(* with the words "at" and "dot" between whitespace.                        *)
WordMatch(s, i) ==
    LET n == RunLength(From(s, i), ReLocalSet)
        p1 == SkipWs(s, i + n)
        p2 == SkipWs(s, p1 + 2)
        m == RunLength(From(s, p2), ReDomainSet)
        p3 == SkipWs(s, p2 + m)
        p4 == SkipWs(s, p3 + 3)
        t == RunLength(From(s, p4), ReLetterSet)
    IN  IF /\ Boundary(s, i)
           /\ n >= 2
           /\ p1 > i + n
           /\ Lower(Mid(s, p1, p1 + 1)) = "at"
           /\ p2 > p1 + 2
           /\ m >= 2
           /\ p3 > p2 + m
           /\ Lower(Mid(s, p3, p3 + 2)) = "dot"
           /\ p4 > p3 + 3
           /\ t >= 2
           /\ CharAt(s, p4 + t) \notin WordSet
        THEN <<p4 + t - 1, SubSeq(s, i, i + n - 1), SubSeq(s, p2, p2 + m - 1),
               SubSeq(s, p4, p4 + t - 1)>>
        ELSE <<0>>

\* lines 161-162
RECURSIVE WordFindall(_, _)
WordFindall(s, i) ==
    LET starts == {j \in i..Len(s) : WordMatch(s, j)[1] > 0}
    IN  IF starts = {} THEN << >>
        ELSE LET g == WordMatch(s, Leftmost(starts))
             IN  <<g[2] \o "@" \o g[3] \o "." \o g[4]>> \o WordFindall(s, g[1] + 1)

\* lines 155-163
extract_emails_from_text(text) ==
    IF text = "" THEN << >>
    ELSE _unique(EmailFindall(text, 1) \o BracketFindall(text, 1) \o WordFindall(text, 1))

(* A parsed page is the sequence of its elements in document order.  An     *)
(* element has a tag, its text, the attributes href, action and             *)
(* data-cfemail (PyNone when the element has none) and, for a script of     *)
(* type application/ld+json, what json.loads makes of its text.             *)
Node(tag, text, href, action, cfemail, json) ==
    [tag |-> tag, text |-> text, href |-> href, action |-> action,
     cfemail |-> cfemail, json |-> json]

(* soup.get_text(sep, strip=True): the stripped, non-empty strings of the   *)
(* page joined by sep; the string of a script element is not among them.    *)
RECURSIVE StrippedStrings(_)
StrippedStrings(soup) ==
    IF soup = << >> THEN << >>
    ELSE LET t == Strip(Head(soup).text, WhitespaceSet)
         IN  IF Head(soup).tag = "script" \/ t = "" THEN StrippedStrings(Tail(soup))
             ELSE <<t>> \o StrippedStrings(Tail(soup))

get_text(soup, sep) == Join(StrippedStrings(soup), sep)

\* [p.strip() for p in re.split(r"[;,]", href) if p.strip()], lines 172-175
RECURSIVE MailtoParts(_)
MailtoParts(href) ==
    LET n == RunLength(href, Chars(href) \ {";", ","})
        part == Strip(SubSeq(href, 1, n), WhitespaceSet)
        rest == IF n >= Len(href) THEN << >> ELSE MailtoParts(From(href, n + 2))
    IN  IF part = "" THEN rest ELSE <<part>> \o rest

IsMailto(node) ==
    node.tag = "a" /\ node.href # PyNone /\ StartsWith(Val(node.href), "mailto:")

\* lines 168-175 over the selected anchors
RECURSIVE MailtoCollected(_)
MailtoCollected(anchors) ==
    IF anchors = << >> THEN << >>
    ELSE LET href == Strip(BeforeLeftmost(From(Val(Head(anchors).href), 8), "?"),
                           WhitespaceSet)
         IN  MailtoParts(href) \o MailtoCollected(Tail(anchors))

\* lines 166-176
extract_mailto_emails(soup) == _unique(MailtoCollected(SelectSeq(soup, IsMailto)))

HexDigits == "0123456789abcdef"

HexValue(c) == (CHOOSE k \in 1..16 : SubSeq(HexDigits, k, k) = ToLowerChar(c)) - 1

\* what bytes.fromhex raises ValueError for
HexError == <<-1>>

(* bytes.fromhex(encoded): whitespace is skipped before a pair of hex       *)
(* digits; anything else is a ValueError.                                   *)
RECURSIVE FromHex(_)
FromHex(encoded) ==
    LET t == LStrip(encoded, WhitespaceSet)
    IN  IF t = "" THEN << >>
        ELSE IF /\ Len(t) >= 2
                /\ ToLowerChar(CharAt(t, 1)) \in Chars(HexDigits)
                /\ ToLowerChar(CharAt(t, 2)) \in Chars(HexDigits)
        THEN LET rest == FromHex(From(t, 3))
             IN  IF rest = HexError THEN HexError
                 ELSE <<16 * HexValue(CharAt(t, 1)) + HexValue(CharAt(t, 2))>> \o rest
        ELSE HexError

\* b ^ key on 8 bits
RECURSIVE Xor(_, _)
Xor(a, b) ==
    IF a = 0 THEN b
    ELSE IF b = 0 THEN a
    ELSE (((a % 2) + (b % 2)) % 2) + (2 * Xor(a \div 2, b \div 2))

\* the code points below 256 that str.strip() strips
WhitespaceCodes == {9, 10, 11, 12, 13, 28, 29, 30, 31, 32, 133, 160}

\* the printable characters 33..126 in code order
Printable ==
    "!\"#^%&'()*+,-./0123456789:;<=>?@ABCDEFGHIJKLMNOPQRSTUVWXYZ[\\]^_^abcdefghijklmnopqrstuvwxyz{|}^"

(* chr(n) for n in 0..255.  "^" stands for every character the model has no *)
(* literal for: the control characters, the codes above 126, and the codes  *)
(* 36, 94, 96 and 126; a whitespace character other than the space and the  *)
(* newline is written as a tab.  No pattern of the extractors names any of  *)
(* the characters that are merged.                                          *)
Chr(n) ==
    IF n = 32 THEN " "
    ELSE IF n = 10 THEN "\n"
    ELSE IF n \in WhitespaceCodes THEN "\t"
    ELSE IF n \in 33..126 THEN SubSeq(Printable, n - 32, n - 32)
    ELSE "^"

\* a decoding that combines the low 7 bits only
RECURSIVE DecodeBytes_SevenBits(_, _)
DecodeBytes_SevenBits(raw, key) ==
    IF raw = << >> THEN ""
    ELSE Chr(Xor(Head(raw) % 128, key % 128)) \o DecodeBytes_SevenBits(Tail(raw), key)

RECURSIVE DecodeBytes(_, _)
DecodeBytes(raw, key) ==
    IF raw = << >> THEN ""
    ELSE Chr(Xor(Head(raw), key)) \o DecodeBytes(Tail(raw), key)

\* lines 179-188
_decode_cloudflare_email(encoded) ==
    LET raw == FromHex(encoded)
    IN  IF raw = HexError \/ raw = << >> THEN ""
        ELSE Strip(DecodeBytes(Tail(raw), raw[1]), WhitespaceSet)

IsProtected(node) == node.cfemail # PyNone

\* a collection that gives up at the first element that fails to decode
RECURSIVE CloudflareCollected_StopsAtFailure(_)
CloudflareCollected_StopsAtFailure(nodes) ==
    IF nodes = << >> THEN << >>
    ELSE LET encoded == Strip(Val(Head(nodes).cfemail), WhitespaceSet)
             decoded == IF encoded = "" THEN "" ELSE _decode_cloudflare_email(encoded)
         IN  IF decoded = "" THEN << >>
             ELSE <<decoded>> \o CloudflareCollected_StopsAtFailure(Tail(nodes))

\* lines 193-199 over the selected elements
RECURSIVE CloudflareCollected(_)
CloudflareCollected(nodes) ==
    IF nodes = << >> THEN << >>
    ELSE LET encoded == Strip(Val(Head(nodes).cfemail), WhitespaceSet)
             decoded == IF encoded = "" THEN "" ELSE _decode_cloudflare_email(encoded)
         IN  IF decoded = "" THEN CloudflareCollected(Tail(nodes))
             ELSE <<decoded>> \o CloudflareCollected(Tail(nodes))

\* lines 191-200
extract_cloudflare_protected_emails(soup) ==
    _unique(CloudflareCollected(SelectSeq(soup, IsProtected)))

(* urllib.parse.urljoin(base, url) for a base without query or fragment and *)
(* a target without "." or ".." segments: a target of another scheme is     *)
(* returned as it is, a target with a host keeps the base's scheme, an      *)
(* empty path keeps the base's path, a rooted path replaces it and any     *)
(* other path replaces its last segment.                                    *)
UrlScheme(u) ==
    IF AfterScheme(u) = u THEN "" ELSE Lower(SubSeq(u, 1, FirstIndex(u, ":") - 1))

UrlPath(u) ==
    LET rest == AfterScheme(u)
        tail == IF StartsWith(rest, "//") THEN From(rest, 3 + Len(Netloc(u))) ELSE rest
    IN  SubSeq(tail, 1, RunLength(tail, Chars(tail) \ {"?", "#"}))

urljoin(base, url) ==
    IF url = "" THEN base
    ELSE IF base = "" THEN url
    ELSE IF UrlScheme(url) # "" /\ UrlScheme(url) # UrlScheme(base) THEN url
    ELSE LET rest == AfterScheme(url)
             origin == UrlScheme(base) \o "://" \o Netloc(base)
             bpath == UrlPath(base)
             dir == IF bpath = "" THEN "/" ELSE SubSeq(bpath, 1, LastIndex(bpath, "/"))
         IN  IF StartsWith(rest, "//") THEN UrlScheme(base) \o ":" \o rest
             ELSE IF rest = "" \/ Head(rest) \in {"?", "#"} THEN origin \o bpath \o rest
             ELSE IF Head(rest) = "/" THEN origin \o rest
             ELSE origin \o dir \o rest

IsForm(node) == node.tag = "form"
HasHref(node) == node.tag = "a" /\ node.href # PyNone

\* a test that reads the href only
NamesContact_HrefOnly(node) ==
    Contains(Lower(Strip(Val(node.href), WhitespaceSet)), "contact")

\* lines 210-214: the anchor's href or label holds "contact"
NamesContact(node) ==
    \/ Contains(Lower(Strip(Val(node.href), WhitespaceSet)), "contact")
    \/ Contains(Lower(Strip(node.text, WhitespaceSet)), "contact")

\* lines 203-217: PyNone or Str(url)
extract_contact_form_url(soup, base_url) ==
    LET forms == SelectSeq(soup, IsForm)
        anchors == SelectSeq(SelectSeq(soup, HasHref), NamesContact)
    IN  IF forms # << >>
        THEN LET action == IF forms[1].action = PyNone THEN ""
                           ELSE Strip(Val(forms[1].action), WhitespaceSet)
             IN  IF action # "" THEN Str(urljoin(base_url, action)) ELSE Str(base_url)
        ELSE IF anchors # << >>
        THEN Str(urljoin(base_url, Strip(Val(anchors[1].href), WhitespaceSet)))
        ELSE PyNone

(* (?:[\s-]?\d){7,8} from position p after k repetitions, line 269: the     *)
(* position after the last repetition and the number of repetitions.        *)
RECURSIVE PhoneTail(_, _, _)
PhoneTail(s, p, k) ==
    IF k = 8 THEN <<p, k>>
    ELSE IF CharAt(s, p) \in DigitSet THEN PhoneTail(s, p + 1, k + 1)
    ELSE IF CharAt(s, p) \in (WhitespaceSet \cup {"-"}) /\ CharAt(s, p + 1) \in DigitSet
    THEN PhoneTail(s, p + 2, k + 1)
    ELSE <<p, k>>

\* the phone pattern of line 269 at position i: the last position, or 0
PhoneEnd(s, i) ==
    LET j == IF CharAt(s, i) = "+" THEN i + 1 ELSE i
        p == IF CharAt(s, i) = "0" THEN i + 1
             ELSE IF Mid(s, j, j + 1) = "61"
             THEN (IF CharAt(s, j + 2) \in WhitespaceSet THEN j + 3 ELSE j + 2)
             ELSE 0
        tail == PhoneTail(s, p + 2, 0)
    IN  IF /\ p > 0
           /\ CharAt(s, p) \in (DigitSet \ {"0", "1"})
           /\ CharAt(s, p + 1) \in DigitSet
           /\ tail[2] >= 7
        THEN tail[1] - 1
        ELSE 0

\* re.search of the phone pattern from position i on: PyNone or Str(group(0))
PhoneSearch(s, i) ==
    LET starts == {j \in i..Len(s) : PhoneEnd(s, j) > 0}
    IN  IF starts = {} THEN PyNone
        ELSE Str(SubSeq(s, Leftmost(starts), PhoneEnd(s, Leftmost(starts))))

\* POSTCODE_RE.search from position i on, line 34: PyNone or Str(group(1))
PostcodeSearch(s, i) ==
    LET starts == {j \in i..(Len(s) - 3) :
                      /\ Boundary(s, j)
                      /\ AllIn(SubSeq(s, j, j + 3), DigitSet)
                      /\ Boundary(s, j + 4)}
    IN  IF starts = {} THEN PyNone
        ELSE Str(SubSeq(s, Leftmost(starts), Leftmost(starts) + 3))

\* lines 280-282
IsWebsiteLink(node) ==
    /\ HasHref(node)
    /\ Contains(Val(node.href), "http")
    /\ \E k \in {"school", "college", ".edu", ".nsw"} : Contains(Lower(Val(node.href)), k)
    /\ ~Contains(Val(node.href), "isnsw")
    /\ ~Contains(Val(node.href), "csnsw")

(* What json.loads returns: PyNone for null, Str(s), a number (its digits), *)
(* a list of values, or a dict (a function from its keys to values);        *)
(* Malformed is a text json.loads raises for.                               *)
JNum(digits) == <<"num", digits>>
JList(values) == <<"list", values>>
JDict(fields) == <<"dict", fields>>
Malformed == <<"malformed">>

IsDict(v) == v[1] = "dict"

\* item.get(key, default)
Get(item, key, default) == IF key \in DOMAIN item[2] THEN item[2][key] ELSE default

\* bool(v)
Truth(v) ==
    IF v = PyNone THEN FALSE
    ELSE IF v[1] = "str" THEN v[2] # ""
    ELSE IF v[1] = "num" THEN RemoveChars(v[2], {"0"}) # ""
    ELSE IF v[1] = "list" THEN v[2] # << >>
    ELSE DOMAIN v[2] # {}

\* lines 288-297: the dict items of the ld+json scripts that parse, in order
RECURSIVE JsonLdItems(_)
JsonLdItems(scripts) ==
    IF scripts = << >> THEN << >>
    ELSE LET data == Head(scripts).json
             items == IF data = Malformed THEN << >>
                      ELSE IF data # PyNone /\ data[1] = "list" THEN data[2]
                      ELSE <<data>>
             IsItem(v) == v # PyNone /\ IsDict(v)
         IN  SelectSeq(items, IsItem) \o JsonLdItems(Tail(scripts))

IsLdJson(node) == node.tag = "script"
IsH1(node) == node.tag = "h1"

Strs(values) == [i \in 1..Len(values) |-> Str(values[i])]

\* lines 252-271: the result once the h1 and the phone pattern have been read
BodyStart(soup) ==
    LET h1 == SelectSeq(soup, IsH1)
    IN  [school_name |-> IF h1 # << >> THEN Str(Strip(h1[1].text, WhitespaceSet))
                         ELSE PyNone,
         suburb |-> PyNone,
         postcode |-> PyNone,
         phone |-> PhoneSearch(get_text(soup, "\n"), 1),
         public_email |-> PyNone,
         website_url |-> PyNone]

(* lines 274-284: the email chosen from the mailto candidates or else from  *)
(* the text candidates, the postcode and the website link                   *)
BodyRest(result, soup, email) ==
    LET links == SelectSeq(soup, IsWebsiteLink)
    IN  [result EXCEPT
            !.public_email = email,
            !.postcode = PostcodeSearch(get_text(soup, "\n"), 1),
            !.website_url = IF links # << >> THEN links[1].href ELSE PyNone]

(* choose_general_email([e], ...) of lines 305-307: a candidate that is     *)
(* true and has no strip method raises AttributeError at line 54.           *)
JsonLdEmailRaises(e) == Truth(e) /\ ~IsStr(e)

\* line 304 finds no email yet and line 305 raises
ItemRaises(result, item) ==
    /\ ~Truth(result.public_email)
    /\ JsonLdEmailRaises(Get(item, "email", Str("")))

\* a merge in which the last item that holds a value wins
FillFromItem_LastWins(result, item, email) ==
    LET Fill(field, found) == IF Truth(found) THEN found ELSE result[field]
        address == Get(item, "address", PyNone)
        inner(key) == IF address # PyNone /\ IsDict(address)
                      THEN Get(address, key, PyNone) ELSE PyNone
    IN  [school_name |-> Fill("school_name", Get(item, "name", PyNone)),
         phone |-> Fill("phone", Get(item, "telephone", PyNone)),
         website_url |-> Fill("website_url", Get(item, "url", PyNone)),
         public_email |-> Fill("public_email", email),
         suburb |-> Fill("suburb", inner("addressLocality")),
         postcode |-> Fill("postcode", inner("postalCode"))]

(* lines 298-313 for one item that does not raise: the result after it,     *)
(* email being what choose_general_email returned for the item's email      *)
FillFromItem(result, item, email) ==
    LET Fill(field, found) == IF Truth(result[field]) THEN result[field] ELSE found
        address == Get(item, "address", PyNone)
        inner(key) == IF address # PyNone /\ IsDict(address)
                      THEN Get(address, key, PyNone) ELSE PyNone
    IN  [school_name |-> Fill("school_name", Get(item, "name", PyNone)),
         phone |-> Fill("phone", Get(item, "telephone", PyNone)),
         website_url |-> Fill("website_url", Get(item, "url", PyNone)),
         public_email |-> Fill("public_email", email),
         suburb |-> IF address # PyNone /\ IsDict(address)
                    THEN Fill("suburb", inner("addressLocality"))
                    ELSE result.suburb,
         postcode |-> IF address # PyNone /\ IsDict(address)
                      THEN Fill("postcode", inner("postalCode"))
                      ELSE result.postcode]

(* Calls of the extractors on a page.  extract.out is what a list extractor *)
(* or extract_contact_form_url returned; extract.result is the dict         *)
(* extract_school_core_fields is building, extract.mailto_emails and        *)
(* extract.text_emails its two candidate lists, extract.emails and          *)
(* extract.source the arguments of its current call of                      *)
(* choose_general_email and extract.chosen what the call returned,          *)
(* extract.items the JSON-LD items its last loop has still to read.         *)

Element(tag, text) == Node(tag, text, PyNone, PyNone, PyNone, PyNone)
Anchor(href, text) == Node("a", text, Str(href), PyNone, PyNone, PyNone)
Form(action) == Node("form", "", PyNone, action, PyNone, PyNone)
Protected(encoded) == Node("span", "[email protected]", PyNone, PyNone, Str(encoded), PyNone)
LdJson(data) == Node("script", "", PyNone, PyNone, PyNone, data)

PageUrl == "https://www.school.edu.au/about/us"

PageNodes ==
    { Element("h1", " Kew High "),
      Element("p", "contact (at) school (dot) edu (dot) au"),
      Element("p", "Kew 3101 info@school.edu.au INFO@school.edu.au 02 9999 8888"),
      Element("p", "Mail in~fo@school.edu.au"),
      Anchor("mailto:office@school.edu.au?subject=Hi", "Email us"),
      Anchor("mailto: Admin@school.edu.au ; admin@school.edu.au,", "Office"),
      Anchor("/contact-us", "Get in touch"),
      Anchor("https://www.school.edu.au/about", "About"),
      Anchor("enquiry.html", " Contact Us "),
      Form(PyNone),
      Form(Str(" /submit ")),
      Protected("5b343d3d32383e1b283833343437753e3f2e753a2e"),
      Protected("115E7777787274516272797E7E7D3F7475643F7064"),
      Protected("zz"),
      Protected("0001020304"),
      Protected(" "),
      Protected("072727"),
      LdJson(JDict([name |-> Str("Kew HS"), telephone |-> Str("0390001111"),
                    url |-> Str("https://kew.example"),
                    email |-> Str("admin@school.edu.au"),
                    address |-> JDict([addressLocality |-> Str("Kew"),
                                       postalCode |-> Str("3101")])])),
      LdJson(JDict([email |-> JList(<<Str("office@school.edu.au")>>)])),
      LdJson(JList(<<JDict([name |-> Str(""), email |-> Str("nobody")]),
                     Str("x"),
                     JDict([name |-> Str("Second"), telephone |-> JNum("5"),
                            email |-> Str("school@school.edu.au")])>>)),
      LdJson(Malformed) }

MaxNodes == 2

InitExtract ==
    /\ client = ClientIdle
    /\ classify = ClassifyIdle
    /\ choose = ChooseIdle
    /\ frame = FrameIdle
    /\ campaign = CampaignIdle
    /\ extract \in {[pc |-> "ready", op |-> "", soup |-> soup, page_url |-> PageUrl,
                     out |-> NoResult, result |-> NoResult, mailto_emails |-> << >>,
                     text_emails |-> << >>, emails |-> << >>, source |-> "",
                     chosen |-> PyNone, items |-> << >>] :
                        soup \in SeqsUpTo(PageNodes, MaxNodes)}

\* extract_emails_from_text(soup.get_text("\n", strip=True))
TextEmails ==
    /\ extract.pc = "ready"
    /\ extract' = [extract EXCEPT
            !.pc = "listed",
            !.op = "extract_emails_from_text",
            !.out = extract_emails_from_text(get_text(extract.soup, "\n"))]
    /\ UNCHANGED <<classify, choose, frame, campaign, client>>

MailtoEmails ==
    /\ extract.pc = "ready"
    /\ extract' = [extract EXCEPT
            !.pc = "listed",
            !.op = "extract_mailto_emails",
            !.out = extract_mailto_emails(extract.soup)]
    /\ UNCHANGED <<classify, choose, frame, campaign, client>>

CloudflareEmails ==
    /\ extract.pc = "ready"
    /\ extract' = [extract EXCEPT
            !.pc = "listed",
            !.op = "extract_cloudflare_protected_emails",
            !.out = extract_cloudflare_protected_emails(extract.soup)]
    /\ UNCHANGED <<classify, choose, frame, campaign, client>>

ContactFormUrl ==
    /\ extract.pc = "ready"
    /\ extract' = [extract EXCEPT
            !.pc = "listed",
            !.op = "extract_contact_form_url",
            !.out = extract_contact_form_url(extract.soup, extract.page_url)]
    /\ UNCHANGED <<classify, choose, frame, campaign, client>>

(* extract_school_core_fields up to line 273: the h1, the phone and the two *)
(* candidate lists; the next step is the call of line 274 on the mailto     *)
(* candidates.                                                              *)
CoreCollect ==
    /\ extract.pc = "ready"
    /\ extract' = [extract EXCEPT
            !.pc = "choose",
            !.op = "extract_school_core_fields",
            !.result = BodyStart(extract.soup),
            !.mailto_emails = extract_mailto_emails(extract.soup),
            !.text_emails = extract_emails_from_text(get_text(extract.soup, "\n")),
            !.emails = Strs(extract_mailto_emails(extract.soup)),
            !.source = "mailto"]
    /\ UNCHANGED <<classify, choose, frame, campaign, client>>

(* A call of choose_general_email by extract_school_core_fields, lines 274, *)
(* 276 and 305, on candidates that are strings.                             *)
ChooseCall ==
    /\ extract.pc = "choose"
    /\ extract' = [extract EXCEPT
            !.pc = "chosen",
            !.chosen = choose_general_email(extract.emails, Str(extract.page_url),
                                            extract.source)]
    /\ UNCHANGED <<classify, choose, frame, campaign, client>>

(* lines 274-287: nothing chosen from the mailto candidates, the text       *)
(* candidates are tried; otherwise the rest of the page body is read and    *)
(* the ld+json scripts are parsed                                           *)
CoreBody ==
    /\ extract.pc = "chosen"
    /\ extract.source \in {"mailto", "text"}
    /\ extract' =
          IF extract.source = "mailto" /\ extract.chosen = PyNone
          THEN [extract EXCEPT !.pc = "choose", !.emails = Strs(extract.text_emails),
                               !.source = "text"]
          ELSE [extract EXCEPT
                    !.pc = "jsonld",
                    !.result = BodyRest(extract.result, extract.soup, extract.chosen),
                    !.items = JsonLdItems(SelectSeq(extract.soup, IsLdJson))]
    /\ UNCHANGED <<classify, choose, frame, campaign, client>>

(* One pass of the loop of line 295 up to the call of line 305.  The call   *)
(* raises for a true candidate that is no string; a false candidate is      *)
(* dropped by the filter of line 223 and the call returns None.             *)
CoreItem ==
    /\ extract.pc = "jsonld"
    /\ extract.items # << >>
    /\ LET item == Head(extract.items)
           email == Get(item, "email", Str(""))
       IN  extract' =
              IF ItemRaises(extract.result, item)
              THEN [extract EXCEPT !.pc = "raised"]
              ELSE IF ~Truth(extract.result.public_email) /\ Truth(email)
              THEN [extract EXCEPT !.pc = "choose", !.emails = <<email>>,
                                   !.source = "jsonld"]
              ELSE [extract EXCEPT
                        !.result = FillFromItem(extract.result, item, PyNone),
                        !.items = Tail(@)]
    /\ UNCHANGED <<classify, choose, frame, campaign, client>>

\* the rest of the pass, after the call of line 305 returned
CoreFill ==
    /\ extract.pc = "chosen"
    /\ extract.source = "jsonld"
    /\ extract' = [extract EXCEPT
            !.pc = "jsonld",
            !.result = FillFromItem(extract.result, Head(extract.items), extract.chosen),
            !.items = Tail(@)]
    /\ UNCHANGED <<classify, choose, frame, campaign, client>>

\* line 315
CoreReturn ==
    /\ extract.pc = "jsonld"
    /\ extract.items = << >>
    /\ extract' = [extract EXCEPT !.pc = "returned"]
    /\ UNCHANGED <<classify, choose, frame, campaign, client>>

NextExtract ==
    \/ TextEmails
    \/ MailtoEmails
    \/ CloudflareEmails
    \/ ContactFormUrl
    \/ CoreCollect
    \/ ChooseCall
    \/ CoreBody
    \/ CoreItem
    \/ CoreFill
    \/ CoreReturn

SpecExtract == InitExtract /\ [][NextExtract]_vars

---------------------------------------------------------------------------
(* _decode_cloudflare_email on the attribute the protection writes for a    *)
(* key and a payload: two hex digits for the key, then two for each byte of *)
(* the payload combined with the key.                                       *)

\* how many bytes a payload holds
MaxPayload == 2

Keys == {0, 1, 32, 91, 128, 255}

PayloadBytes == {9, 32, 46, 64, 97, 122, 127, 200}

HexPair(n) ==
    SubSeq(HexDigits, (n \div 16) + 1, (n \div 16) + 1)
        \o SubSeq(HexDigits, (n % 16) + 1, (n % 16) + 1)

RECURSIVE HexOf(_)
HexOf(bytes) == IF bytes = << >> THEN "" ELSE HexPair(Head(bytes)) \o HexOf(Tail(bytes))

InitDecode ==
    /\ client = ClientIdle
    /\ classify = ClassifyIdle
    /\ choose = ChooseIdle
    /\ frame = FrameIdle
    /\ campaign = CampaignIdle
    /\ extract \in {[pc |-> "encoded", op |-> "_decode_cloudflare_email",
                     key |-> k, payload |-> p,
                     encoded |-> HexOf(<<k>> \o [i \in 1..Len(p) |-> Xor(p[i], k)]),
                     out |-> NoResult] :
                        k \in Keys, p \in SeqsUpTo(PayloadBytes, MaxPayload)}

\* one call of _decode_cloudflare_email
Decode ==
    /\ extract.pc = "encoded"
    /\ extract' = [extract EXCEPT
            !.pc = "decoded",
            !.out = _decode_cloudflare_email(extract.encoded)]
    /\ UNCHANGED <<classify, choose, frame, campaign, client>>

NextDecode == Decode

SpecDecode == InitDecode /\ [][NextDecode]_vars

---------------------------------------------------------------------------
(* utils/http_client.py: one EthicalHttpClient and the calls of get on it.  *)
(* client.web is what is outside the program: what each robots.txt URL      *)
(* answers.  client.now is time.time() in ticks; an outbound request starts *)
(* at a tick and ends some ticks later.  client.last_start and              *)
(* client.prev_start are the ticks at which the last two outbound requests  *)
(* started (-1: none yet), client.fetched how many requests were made for   *)
(* each robots.txt URL, client.computed how many verdicts for each origin.  *)

\* config.request_delay_seconds, in ticks
Delay == 2

\* how long an outbound request may take, in ticks
Durations == {1, 3}

\* how long the caller may wait between two calls of get
Pauses == {0, 3}

\* how many calls of get are made on the client
MaxCalls == 2

GetUrls == {"https://a.au/x", "https://a.au/private/y", "http://a.au/x"}

RobotsUrls == {"https://a.au/robots.txt", "http://a.au/robots.txt"}

\* the exceptions of session.get, lines 96 and 116
SSLError == "SSLError"
Timeout == "Timeout"

\* the status None of lines 113, 115 and 117
NoStatus == 0

(* What a robots.txt URL answers: to session.get an exception ("": none)    *)
(* or a status with a body; to curl a return code with its output.          *)
Answer(raises, status, text, returncode, stdout) ==
    [raises |-> raises, status |-> status, text |-> text,
     returncode |-> returncode, stdout |-> stdout]

Answers ==
    { Answer("", 200, "User-agent: *\nDisallow: /private", 0, ""),
      Answer("", 200, "", 0, ""),
      Answer("", 404, "<html><title>404 Not Found</title></html>", 0, ""),
      Answer("", 503, "Service Unavailable", 0, ""),
      Answer(Timeout, NoStatus, "", 0, ""),
      Answer(SSLError, NoStatus, "", 0, "User-agent: *\nDisallow: /private"),
      Answer(SSLError, NoStatus, "", 0, "<html><TITLE>404 Not Found</TITLE></html>"),
      Answer(SSLError, NoStatus, "", 35, "") }

\* f"{parsed.scheme}://{parsed.netloc}", line 59
BaseOf(url) == UrlScheme(url) \o "://" \o Netloc(url)

Larger(a, b) == IF a >= b THEN a ELSE b

\* _rate_limit, lines 51-55: the tick at which the request after it starts
AfterRateLimit(c) == Larger(c.now, c.last_request_ts + Delay)

(* RobotFileParser.parse(text.splitlines()) for a text with one group, for  *)
(* every user agent: the paths of its Disallow lines that are not empty.    *)
Disallowed(text) ==
    LET lines == SplitNonEmpty(text, "\n")
    IN  { Strip(From(lines[i], Len("Disallow:") + 1), WhitespaceSet) :
            i \in {j \in 1..Len(lines) :
                     /\ StartsWith(Lower(lines[j]), "disallow:")
                     /\ Strip(From(lines[j], Len("Disallow:") + 1), WhitespaceSet) # ""} }

\* parser.can_fetch(user_agent, url), the parser given by its disallowed paths
can_fetch(disallowed, url) == \A p \in disallowed : ~StartsWith(UrlPath(url), p)

\* lines 73-83: the parser for a status and a text
ParserFor(status, text) ==
    IF text # "" THEN Disallowed(text)
    ELSE IF status = 404 THEN Disallowed("User-agent: *\nDisallow:")
    ELSE Disallowed("User-agent: *\nDisallow: /")

\* is_allowed and lines 124-125 of get, once the parser is in the cache
Decided(c) ==
    IF can_fetch(c.robots_cache[BaseOf(c.url)], c.url)
    THEN [c EXCEPT !.pc = "page"]
    ELSE [c EXCEPT !.pc = "idle", !.outcome = "PermissionError"]

(* _get_robot_parser from line 68 on, _fetch_robots_text having returned    *)
(* (status, text) for c.robots_url: the fallback to http, or the parser is  *)
(* built and cached and get goes on.                                        *)
AfterRobots(c, status, text) ==
    IF /\ text = "" /\ status # 404
       /\ UrlScheme(c.url) = "https" /\ ~c.fallback
    THEN [c EXCEPT !.pc = "robots", !.fallback = TRUE,
                   !.robots_url = "http://" \o Netloc(c.url) \o "/robots.txt"]
    ELSE Decided([c EXCEPT
            !.robots_cache = [b \in (DOMAIN c.robots_cache) \cup {BaseOf(c.url)} |->
                                IF b = BaseOf(c.url) THEN ParserFor(status, text)
                                ELSE c.robots_cache[b]],
            !.computed[BaseOf(c.url)] = @ + 1])

\* an outbound request for url starts at tick start
Started(c, start) ==
    [c EXCEPT !.prev_start = c.last_start, !.last_start = start]

ClientStarts ==
    {[pc |-> "idle", web |-> web, url |-> "", robots_url |-> "", fallback |-> FALSE,
      now |-> Delay, last_request_ts |-> 0, robots_cache |-> << >>,
      calls |-> 0, outcome |-> "", prev_start |-> -1, last_start |-> -1,
      fetched |-> [u \in RobotsUrls |-> 0],
      computed |-> [b \in {BaseOf(u) : u \in GetUrls} |-> 0]] :
        web \in [RobotsUrls -> Answers]}

InitHttp ==
    /\ classify = ClassifyIdle
    /\ choose = ChooseIdle
    /\ frame = FrameIdle
    /\ campaign = CampaignIdle
    /\ extract = ExtractIdle
    /\ client \in ClientStarts

(* get(url) up to its first outbound request: the parser of the origin is   *)
(* in the cache and decides, or robots.txt is to be fetched.                *)
get ==
    /\ client.pc = "idle" /\ client.calls < MaxCalls
    /\ \E url \in GetUrls, pause \in Pauses :
         LET called == [client EXCEPT
                          !.url = url, !.calls = @ + 1, !.now = @ + pause,
                          !.outcome = "", !.fallback = FALSE]
         IN  client' =
               IF BaseOf(url) \in DOMAIN client.robots_cache THEN Decided(called)
               ELSE [called EXCEPT !.pc = "robots",
                                   !.robots_url = BaseOf(url) \o "/robots.txt"]
    /\ UNCHANGED <<classify, choose, frame, campaign, extract>>

(* _fetch_robots_text, lines 90-95 and 116-117: the rate limit, the request *)
(* and what follows its answer; an SSLError leads to curl.                  *)
FetchRobots ==
    /\ client.pc = "robots"
    /\ \E d \in Durations :
         LET start == AfterRateLimit(client)
             answer == client.web[client.robots_url]
             sent == [Started(client, start) EXCEPT
                         !.now = start + d, !.fetched[client.robots_url] = @ + 1]
         IN  client' =
               IF answer.raises = SSLError THEN [sent EXCEPT !.pc = "curl"]
               ELSE IF answer.raises # "" THEN AfterRobots(sent, NoStatus, "")
               ELSE AfterRobots([sent EXCEPT !.last_request_ts = start + d],
                                answer.status,
                                IF answer.status >= 400 THEN "" ELSE answer.text)
    /\ UNCHANGED <<classify, choose, frame, campaign, extract>>

\* lines 96-115: curl is run at once
Curl ==
    /\ client.pc = "curl"
    /\ \E d \in Durations :
         LET answer == client.web[client.robots_url]
             ran == [Started(client, client.now) EXCEPT
                        !.now = client.now + d, !.last_request_ts = client.now + d,
                        !.fetched[client.robots_url] = @ + 1]
         IN  client' =
               IF answer.returncode # 0 THEN AfterRobots(ran, NoStatus, "")
               ELSE IF Contains(Lower(answer.stdout), "<title>404")
               THEN AfterRobots(ran, 404, "")
               ELSE AfterRobots(ran, 200, answer.stdout)
    /\ UNCHANGED <<classify, choose, frame, campaign, extract>>

(* get, lines 127-133: the rate limit and the page request, which returns a *)
(* response or raises.                                                      *)
PageRequest ==
    /\ client.pc = "page"
    /\ \E d \in Durations, raises \in BOOLEAN :
         LET start == AfterRateLimit(client)
             sent == [Started(client, start) EXCEPT !.pc = "idle", !.now = start + d]
         IN  client' =
               IF raises THEN [sent EXCEPT !.outcome = "raised"]
               ELSE [sent EXCEPT !.outcome = "Response", !.last_request_ts = start + d]
    /\ UNCHANGED <<classify, choose, frame, campaign, extract>>

NextHttp ==
    \/ get
    \/ FetchRobots
    \/ Curl
    \/ PageRequest

SpecHttp == InitHttp /\ [][NextHttp]_vars

Init ==
    InitClassify \/ InitChoose \/ InitRows \/ InitEnrich \/ InitExtract \/ InitDecode
        \/ InitHttp

Next ==
    NextClassify \/ NextChoose \/ NextRows \/ NextEnrich \/ NextExtract \/ NextDecode
        \/ NextHttp

Spec == Init /\ [][Next]_vars

---------------------------------------------------------------------------
(* The checks of the classifier as the specification words them, written   *)
(* without EMAIL_EXACT_RE_match and SyntaxReason.                           *)

AsciiLetterSet == LowerSet \cup UpperSet

(* The strict grammar local@domain.tld over a set of letters: s splits at   *)
(* an at sign and at a later dot into a local part, a domain and a          *)
(* top-level label of 2 or more letters.                                    *)
GrammarOver(s, letters) ==
    \E i \in 1..Len(s), j \in 1..Len(s) :
        /\ i < j
        /\ SubSeq(s, i, i) = "@" /\ SubSeq(s, j, j) = "."
        /\ i > 1
        /\ AllIn(SubSeq(s, 1, i - 1), letters \cup DigitSet \cup {".", "_", "%", "+", "-"})
        /\ j > i + 1
        /\ AllIn(SubSeq(s, i + 1, j - 1), letters \cup DigitSet \cup {".", "-"})
        /\ Len(s) - j >= 2 /\ AllIn(SubSeq(s, j + 1, Len(s)), letters)

StrictGrammar(s) == GrammarOver(s, AsciiLetterSet)

HasWhitespace(s) == \E i \in 1..Len(s) : SubSeq(s, i, i) \in WhitespaceSet

LocalOf(s) == BeforeLeftmost(s, "@")
DomainOf(s) == AfterLeftmost(s, "@")
TldOf(s) == AfterLast(DomainOf(s), ".")

\* checks 1-8 in the order of the specification; "none" when all pass
FirstFailingCheck(clean) ==
    IF clean = "" THEN "empty"
    ELSE IF HasWhitespace(clean) \/ Count(clean, "@") # 1 \/ ~StrictGrammar(clean)
    THEN "invalid_format"
    ELSE IF Len(LocalOf(clean)) < 2 THEN "local_too_short"
    ELSE IF DomainOf(clean) \in PLACEHOLDER_DOMAINS THEN "placeholder_domain"
    ELSE IF ~Contains(DomainOf(clean), ".") THEN "missing_tld"
    ELSE IF ~(Len(TldOf(clean)) >= 2 /\ AllIn(TldOf(clean), AsciiLetterSet))
    THEN "invalid_tld_format"
    ELSE IF TldOf(clean) \notin ALLOWED_TLDS THEN "invalid_tld"
    ELSE "none"

CleanOf(email) == IF email = PyNone THEN "" ELSE _normalise_email_candidate(Val(email))

PassesChecks1to8(email) == FirstFailingCheck(CleanOf(email)) = "none"

ClassifyDone == classify.pc = "done"

(* C1: for every input that fails at least one of the checks empty,         *)
(* invalid_format (whitespace, not exactly one at sign, strict grammar),    *)
(* local_too_short, placeholder_domain, missing_tld, invalid_tld_format,    *)
(* invalid_tld, classify_public_email returns no email, disposition invalid *)
(* and the reason of the first failing check in that order.                 *)
C1_FirstFailingCheckWins ==
    ClassifyDone =>
        LET first == FirstFailingCheck(CleanOf(classify.email))
        IN  first # "none" => classify.result = <<PyNone, "invalid", first>>

C3_RelationshipCheckSkipped ==
    ClassifyDone =>
        LET clean == CleanOf(classify.email)
        IN  ( \/ classify.source \in {"directory", "mixed"}
              \/ /\ Count(clean, "@") = 1
                 /\ DomainOf(clean) \in TRUSTED_GOV_EMAIL_DOMAINS )
            => /\ \A u \in WebsiteUrls :
                    classify_public_email(classify.email, u, classify.source)
                        = classify.result
               /\ PassesChecks1to8(classify.email)
                    => classify.result = <<Str(clean), "valid", "ok">>

\* a trusted domain found in free text of a page of an unrelated host
C3_Witness ==
    /\ ClassifyDone
    /\ classify.source = "text"
    /\ classify.email = Str("office@education.vic.gov.au")
    /\ _extract_hostname(classify.website_url) = Str("myschool.vic.edu.au")
    /\ classify.result = <<Str("office@education.vic.gov.au"), "valid", "ok">>

\* the precondition of C7 as written: grammar and allow-listed top-level label
GrammarAndAllowedTld(email) ==
    /\ email # PyNone
    /\ StrictGrammar(Val(email))
    /\ Lower(TldOf(Val(email))) \in ALLOWED_TLDS

(* C7 as written: every address that matches the strict grammar and has an  *)
(* allow-listed top-level label is, with no website_url, valid/ok and       *)
(* returned in lowercase.                                                   *)
C7_AsWritten ==
    (ClassifyDone /\ classify.website_url = PyNone
        /\ GrammarAndAllowedTld(classify.email))
    => classify.result = <<Str(Lower(Val(classify.email))), "valid", "ok">>

(* C7 amended: every address that matches the strict grammar, has an        *)
(* allow-listed top-level label, whose normalised form has a local part of  *)
(* at least 2 characters and whose domain is not a placeholder domain is,   *)
(* with no website_url, valid/ok; the address returned is the lowercase     *)
(* address less the leading dots and %20 / + artefacts that normalisation   *)
(* strips, so the lowercase address itself when it starts with none.        *)
C7_GrammarAllowedTldValid ==
    (ClassifyDone /\ classify.website_url = PyNone
        /\ GrammarAndAllowedTld(classify.email)
        /\ Len(LocalOf(CleanOf(classify.email))) >= 2
        /\ DomainOf(CleanOf(classify.email)) \notin PLACEHOLDER_DOMAINS)
    => LET low == Lower(Val(classify.email))
           r == classify.result
       IN  /\ r[1] # PyNone /\ r[2] = "valid" /\ r[3] = "ok"
           /\ EndsWith(low, Val(r[1]))
           /\ LocalOf(Val(r[1])) # "" /\ DomainOf(Val(r[1])) = DomainOf(low)
           /\ ~(StartsWith(low, ".") \/ StartsWith(low, "+") \/ StartsWith(low, "%20"))
                => Val(r[1]) = low

\* an upper-case address of an allow-listed domain, classified with no website
C7_Witness ==
    /\ ClassifyDone /\ classify.website_url = PyNone
    /\ classify.email = Str("AB@School.Edu.AU")
    /\ classify.result = <<Str("ab@school.edu.au"), "valid", "ok">>

\* exactly one at sign and no dot after it
DomainWithoutDot(clean) == Count(clean, "@") = 1 /\ ~Contains(DomainOf(clean), ".")

(* C8 as written: an address whose domain contains no dot, such as a@b, is  *)
(* invalid with reason missing_tld.                                         *)
C8_AsWritten ==
    (ClassifyDone /\ DomainWithoutDot(CleanOf(classify.email)))
    => classify.result = <<PyNone, "invalid", "missing_tld">>

(* C8 amended: an address whose domain contains no dot, such as a@b, is     *)
(* invalid with reason invalid_format.                                      *)
C8_NoDotIsInvalidFormat ==
    (ClassifyDone /\ DomainWithoutDot(CleanOf(classify.email)))
    => classify.result = <<PyNone, "invalid", "invalid_format">>

\* the example of the specification
C8_Witness ==
    /\ ClassifyDone
    /\ classify.email = Str("a@b")
    /\ classify.result = <<PyNone, "invalid", "invalid_format">>

---------------------------------------------------------------------------
(* The selector's rules as the specification words them, over the           *)
(* candidates of the call in their original order.                          *)

ChooseDone == choose.pc = "done"

ClassOf(i) ==
    classify_public_email(choose.emails[i], choose.website_url, choose.source)
AddrAt(i) == Val(ClassOf(i)[1])
ValidIdx == {i \in 1..Len(choose.emails) : ClassOf(i)[2] = "valid"}
Least(S) == CHOOSE i \in S : \A j \in S : i <= j

GeneralMailboxNames ==
    {"info", "admin", "office", "contact", "enquiries", "enquiry", "reception",
     "registrar", "school"}

\* the valid candidates whose local part is a general mailbox name
GeneralIdx == {i \in ValidIdx : LocalOf(AddrAt(i)) \in GeneralMailboxNames}

\* the valid candidates whose local part starts with a general mailbox name
GeneralPrefixIdx ==
    {i \in ValidIdx : \E n \in GeneralMailboxNames : StartsWith(LocalOf(AddrAt(i)), n)}

\* two purely alphabetic segments of 3+ characters joined by a dot
PersonalForm(local) ==
    \E k \in 1..Len(local) :
        /\ SubSeq(local, k, k) = "."
        /\ k - 1 >= 3 /\ AllIn(SubSeq(local, 1, k - 1), AsciiLetterSet)
        /\ Len(local) - k >= 3 /\ AllIn(SubSeq(local, k + 1, Len(local)), AsciiLetterSet)

NonPersonalIdx == {i \in ValidIdx : ~PersonalForm(LocalOf(AddrAt(i)))}

(* C4: choose_general_email returns only the address of a candidate that    *)
(* classify_public_email marks valid under the same website_url and source, *)
(* never that of a suspicious or invalid one, and returns none exactly when *)
(* no candidate is classified valid.                                        *)
C4_OnlyValidReturned ==
    ChooseDone =>
        /\ (choose.result = PyNone) <=> (ValidIdx = {})
        /\ choose.result # PyNone
             => \E i \in ValidIdx : ClassOf(i) = <<choose.result, "valid", "ok">>

\* a suspicious general address comes first and a valid personal one is returned
C4_Witness ==
    /\ ChooseDone
    /\ choose.emails = <<Str("admin@other.org.au"), Str("john.smith@school.edu.au")>>
    /\ ClassOf(1)[2] = "suspicious"
    /\ choose.result = Str("john.smith@school.edu.au")

(* C5 as written: if a valid candidate has a local part that starts with a  *)
(* general-mailbox prefix, the result is the first such candidate.          *)
C5_AsWritten ==
    (ChooseDone /\ GeneralPrefixIdx # {})
    => choose.result = Str(AddrAt(Least(GeneralPrefixIdx)))

(* C5 amended: if a valid candidate has a local part that is one of the     *)
(* general mailbox names (info, admin, office, contact, enquiries, enquiry, *)
(* reception, registrar, school), the result is the first such candidate in *)
(* original order, whatever other candidates precede it.                    *)
C5_GeneralMailboxFirst ==
    (ChooseDone /\ GeneralIdx # {})
    => choose.result = Str(AddrAt(Least(GeneralIdx)))

\* the example of the specification: info@ wins over an earlier personal address
C5_Witness ==
    /\ ChooseDone
    /\ choose.emails = <<Str("john.smith@school.edu.au"), Str("info@school.edu.au")>>
    /\ choose.result = Str("info@school.edu.au")

(* C6: when no valid candidate is a general-mailbox address, the result is  *)
(* the first valid candidate whose local part is not of the personal form,  *)
(* and the first valid candidate when every valid candidate is of that form.*)
C6_NonPersonalThenFirst ==
    (ChooseDone /\ GeneralIdx = {} /\ ValidIdx # {})
    => choose.result =
         IF NonPersonalIdx # {} THEN Str(AddrAt(Least(NonPersonalIdx)))
         ELSE Str(AddrAt(Least(ValidIdx)))

\* a personal address first, then one with a 2-letter segment, which is returned
C6_Witness ==
    /\ ChooseDone
    /\ choose.emails = <<Str("john.smith@school.edu.au"), Str("ab.smith@school.edu.au")>>
    /\ choose.result = Str("ab.smith@school.edu.au")

---------------------------------------------------------------------------
(* The row operations *)

Standardised == frame.pc \in {"standardised", "stamped", "deduped", "saved"}

Emails(f) == {f.rows[i]["public_email"] : i \in 1..Len(f.rows)}

\* lowercase, and the strict grammar over the given letters
LowercaseAddress(e, letters) == Lower(e) = e /\ GrammarOver(e, letters)

(* C9 as written: in every row standardise_dataframe produces, and so in    *)
(* every row merged and saved, public_email is absent or a lowercase        *)
(* address that matches the strict grammar and has an allow-listed          *)
(* top-level label.                                                         *)
C9_AsWritten ==
    Standardised =>
        \A v \in Emails(frame.df) :
            \/ v = PyNone
            \/ /\ IsStr(v)
               /\ LowercaseAddress(Val(v), AsciiLetterSet)
               /\ TldOf(Val(v)) \in ALLOWED_TLDS

(* C9 amended: in every row standardise_dataframe produces, and so in every *)
(* row merged and saved, public_email is absent or a lowercase address that *)
(* matches the strict grammar as EMAIL_RE applies it, case-insensitively:   *)
(* its top-level label is 2 or more letters and need not be allow-listed.   *)
C9_EmailAbsentOrGrammatical ==
    Standardised =>
        \A v \in Emails(frame.df) \cup
                 (IF frame.pc = "saved" THEN Emails(frame.saved) ELSE {}) :
            \/ v = PyNone
            \/ IsStr(v) /\ LowercaseAddress(Val(v), ReLetterSet)

(* a malformed address was dropped, an address was trimmed and lowercased,  *)
(* and one with a top-level label off the allow-list was kept               *)
C9_Witness ==
    /\ frame.pc = "standardised"
    /\ Emails(frame.before) = {Str("a@b"), Str(" AB@x.au "), Str("ab@x.xyz")}
    /\ Emails(frame.df) = {PyNone, Str("ab@x.au"), Str("ab@x.xyz")}

DedupeReturned == frame.pc \in {"deduped", "dedupe_returned"}

\* the key of the claim: lowercased, trimmed school_name and suburb
ClaimKey(row) ==
    <<Lower(Strip(IF IsStr(row["school_name"]) THEN Val(row["school_name"]) ELSE "",
                  WhitespaceSet)),
      Lower(Strip(IF IsStr(row["suburb"]) THEN Val(row["suburb"]) ELSE "",
                  WhitespaceSet))>>

(* C10: after dedupe_prefer_email, for every key (lowercased, trimmed       *)
(* school_name; lowercased, trimmed suburb) of the input exactly one row of *)
(* the output has that key, no two output rows share a key, and every       *)
(* output row is one of the input rows unchanged.                           *)
C10_OneRowPerKey ==
    DedupeReturned =>
        LET given == frame.before.rows
            out == frame.df.rows
        IN  /\ \A i \in 1..Len(given) :
                 Cardinality({j \in 1..Len(out) : ClaimKey(out[j]) = ClaimKey(given[i])}) = 1
            /\ \A j, k \in 1..Len(out) : ClaimKey(out[j]) = ClaimKey(out[k]) => j = k
            /\ \A j \in 1..Len(out) : \E i \in 1..Len(given) : out[j] = given[i]
            /\ frame.df.cols = frame.before.cols

\* three rows of one key under different spellings and one of another suburb
C10_Witness ==
    /\ frame.pc = "dedupe_returned"
    /\ Len(frame.before.rows) = 3
    /\ Len(frame.df.rows) = 2
    /\ \E i, j \in 1..3 :
          /\ i # j
          /\ frame.before.rows[i]["school_name"] # frame.before.rows[j]["school_name"]
          /\ ClaimKey(frame.before.rows[i]) = ClaimKey(frame.before.rows[j])

\* the rows of the input that share the key of row i
SameKey(given, i) == {j \in 1..Len(given) : ClaimKey(given[j]) = ClaimKey(given[i])}

NonEmptyEmail(row) == IsStr(row["public_email"]) /\ Val(row["public_email"]) # ""

(* the row C11 says is kept for the key of row i: the earliest with a       *)
(* non-empty public_email, the earliest of all when none has one            *)
KeptFor(given, i) ==
    LET same == SameKey(given, i)
        withEmail == {j \in same : NonEmptyEmail(given[j])}
    IN  IF withEmail # {} THEN Least(withEmail) ELSE Least(same)

(* C11: among the input rows that share a deduplication key, the row        *)
(* dedupe_prefer_email keeps is one with a non-empty public_email whenever  *)
(* there is one, and the earliest in input order among the equally          *)
(* qualified rows.                                                          *)
C11_EmailRowKept ==
    DedupeReturned =>
        LET given == frame.before.rows
            out == frame.df.rows
        IN  \A i \in 1..Len(given) : \A j \in 1..Len(out) :
                ClaimKey(out[j]) = ClaimKey(given[i])
                    => out[j] = given[KeptFor(given, i)]

(* in the merge step, two rows of one key under two spellings, the second   *)
(* alone with an address: the second is kept                                *)
C11_Witness ==
    /\ frame.pc = "deduped"
    /\ Len(frame.before.rows) = 2
    /\ ClaimKey(frame.before.rows[1]) = ClaimKey(frame.before.rows[2])
    /\ frame.before.rows[1]["public_email"] = PyNone
    /\ frame.before.rows[2]["public_email"] = Str("ab@x.au")
    /\ frame.df.rows = <<frame.before.rows[2]>>

\* standardize(deduplicate(rows))
StandardiseDeduped(df) == standardise_dataframe(dedupe_prefer_email(df))

(* C12: standardise_dataframe and dedupe_prefer_email are each idempotent   *)
(* on their own output, and so is their composition                         *)
(* standardize(deduplicate(rows)): applied to its own result it yields the  *)
(* same rows with the same values in the same order, for every row          *)
(* collection with the canonical columns.                                   *)
C12_Idempotent ==
    /\ frame.pc = "standardised" => standardise_dataframe(frame.df) = frame.df
    /\ DedupeReturned =>
          /\ dedupe_prefer_email(frame.df) = frame.df
          /\ frame.before.cols = EXPECTED
                => StandardiseDeduped(StandardiseDeduped(frame.before))
                     = StandardiseDeduped(frame.before)

---------------------------------------------------------------------------
(* The website_checked flag *)

\* the flag as the claim reads it
CheckedTrue(row) == IsStr(row.website_checked)
                    /\ Lower(Strip(Val(row.website_checked), WhitespaceSet)) = "true"

\* the step fetches the website of row k
FetchedInStep(k) ==
    /\ campaign.pc = "enrich" /\ campaign'.pc = "enrich"
    /\ k \in campaign'.fetched /\ k \notin campaign.fetched

\* not an address of the strict grammar with 2 or more characters before the
\* at sign and an allow-listed top-level label
InvalidAddress(e) ==
    \/ ~GrammarOver(e, AsciiLetterSet)
    \/ Len(LocalOf(e)) < 2
    \/ TldOf(e) \notin ALLOWED_TLDS

\* the step is the clean-up pass and it clears the email of row k as invalid
ClearedByCleanup(k) ==
    /\ campaign.pc = "ready" /\ campaign'.script = "clean"
    /\ campaign'.passes = campaign.passes + 1
    /\ IsStr(campaign.csv[k].public_email)
    /\ InvalidAddress(Lower(Strip(Val(campaign.csv[k].public_email), WhitespaceSet)))
    /\ campaign'.csv[k].public_email = NaN
    /\ campaign'.df[k].public_email = PyNone

(* C13: website_checked is monotonic.  No step of an enrichment loop        *)
(* fetches a row whose flag is true; a step takes the flag of a row, in the *)
(* frame or in the file, from true to false only if it is the clean-up pass *)
(* clean_csv and that pass clears the public_email of the row as invalid.   *)
C13_CheckedMonotonic ==
    [][campaign.pc # "idle" =>
        \A k \in 1..Len(campaign.csv) :
            /\ FetchedInStep(k) => ~CheckedTrue(campaign.df[k])
            /\ (CheckedTrue(campaign.csv[k]) /\ ~CheckedTrue(campaign'.csv[k]))
                    => ClearedByCleanup(k)
            /\ (CheckedTrue(campaign.df[k]) /\ ~CheckedTrue(campaign'.df[k]))
                    => ClearedByCleanup(k)]_vars

(* a checked row with a fake address was reset by the clean-up pass, and    *)
(* the enrichment loop of the next pass fetched it                          *)
C13_Witness ==
    /\ campaign.pc = "enrich" /\ campaign.passes = 1
    /\ \E k \in 1..Len(campaign.df) :
          /\ k \in campaign.fetched
          /\ campaign.sites[k].email = Str("office@s.edu.au")
          /\ campaign.df[k].public_email = Str("office@s.edu.au")
          /\ campaign.df[k].website_checked = Str("true")
          /\ campaign.before[k].website_checked = Str("false")
          /\ campaign.before[k].public_email = NaN
          /\ campaign.sites[k].form = Str("https://s.edu.au/contact")

---------------------------------------------------------------------------
(* Claims about the extractors. *)

ListedBy(op) == extract.pc = "listed" /\ extract.op = op

(* C14: the extraction core never raises for data-quality reasons: whatever *)
(* the page holds, a JSON-LD email that is a list, a number or an object    *)
(* included, extract_school_core_fields returns a result.                   *)
C14_NeverRaises == extract.pc # "raised"

\* the text "local (at) label1 (dot) label2 (dot) label3"
ThreeLabelForm(local, label1, label2, label3) ==
    local \o " (at) " \o label1 \o " (dot) " \o label2 \o " (dot) " \o label3

Labels == {"contact", "school", "edu", "au"}

(* C15: extract_emails_from_text reconstructs a bracket-obfuscated address  *)
(* with a multi-label domain in full: a text of the page of the form        *)
(* "local (at) label1 (dot) label2 (dot) label3" yields the candidate       *)
(* local@label1.label2.label3.                                              *)
C15_MultiLabelReconstructed ==
    ListedBy("extract_emails_from_text") =>
        \A k \in 1..Len(extract.soup) : \A a, b, c, d \in Labels :
            extract.soup[k].text = ThreeLabelForm(a, b, c, d)
                => \E j \in 1..Len(extract.out) :
                      extract.out[j] = a \o "@" \o b \o "." \o c \o "." \o d

\* the codes the bytes after the key decode to
DecodedCodes(encoded) ==
    LET raw == FromHex(Strip(encoded, WhitespaceSet))
    IN  IF raw = HexError \/ raw = << >> THEN << >>
        ELSE [k \in 1..(Len(raw) - 1) |-> Xor(raw[k + 1], raw[1])]

\* valid hex whose decoding holds a character that is not printable
NonPrintableGarbage(node) ==
    /\ node.cfemail # PyNone
    /\ \E k \in 1..Len(DecodedCodes(Val(node.cfemail))) :
          DecodedCodes(Val(node.cfemail))[k] \notin (32..126) \cup WhitespaceCodes

KeepsClear(node) == ~NonPrintableGarbage(node)

(* C16: an element whose hex string is valid but decodes to non-printable   *)
(* garbage contributes no candidate: the list returned is the list the page *)
(* without such elements gives.                                             *)
C16_GarbageDropped ==
    ListedBy("extract_cloudflare_protected_emails") =>
        extract.out = extract_cloudflare_protected_emails(SelectSeq(extract.soup, KeepsClear))

\* the encoded attribute of a protected element, stripped
Encoded(node) == Strip(Val(node.cfemail), WhitespaceSet)

\* an even number of hex digits
ValidHex(encoded) ==
    LET digits == RemoveChars(encoded, WhitespaceSet)
    IN  Len(digits) % 2 = 0 /\ AllIn(Lower(digits), Chars("0123456789abcdef"))

\* a protected element whose attribute is empty, is not hex, or decodes to nothing
FailsToDecode(node) ==
    /\ node.cfemail # PyNone
    /\ \/ Encoded(node) = ""
       \/ ~ValidHex(Encoded(node))
       \/ \A k \in 1..Len(DecodedCodes(Encoded(node))) :
             DecodedCodes(Encoded(node))[k] \in WhitespaceCodes

Without(soup, k) == SubSeq(soup, 1, k - 1) \o SubSeq(soup, k + 1, Len(soup))

(* C17: a decoding failure is isolated to its element.  An element whose    *)
(* attribute is empty, is not valid hex or decodes to an empty string       *)
(* contributes nothing (the list is the list of the page without it), and   *)
(* the address of every other protected element is in the list returned.    *)
C17_FailureIsolated ==
    ListedBy("extract_cloudflare_protected_emails") =>
        \A k \in 1..Len(extract.soup) :
            /\ FailsToDecode(extract.soup[k])
                  => extract.out =
                        extract_cloudflare_protected_emails(Without(extract.soup, k))
            /\ (extract.soup[k].cfemail # PyNone /\ ~FailsToDecode(extract.soup[k]))
                  => \E j \in 1..Len(extract.out) :
                        Lower(extract.out[j])
                            = Lower(_decode_cloudflare_email(Encoded(extract.soup[k])))

\* an element that is not hex, then a protected address: the address is returned
C17_Witness ==
    /\ ListedBy("extract_cloudflare_protected_emails")
    /\ Len(extract.soup) = 2
    /\ extract.soup[1].cfemail = Str("zz")
    /\ extract.soup[2].cfemail = Str("5b343d3d32383e1b283833343437753e3f2e753a2e")
    /\ extract.out = <<"office@school.edu.au">>

FormPositions == {k \in 1..Len(extract.soup) : extract.soup[k].tag = "form"}

\* the anchors whose href or visible label holds "contact", whatever the case
ContactAnchorPositions ==
    {k \in 1..Len(extract.soup) :
        /\ extract.soup[k].tag = "a"
        /\ extract.soup[k].href # PyNone
        /\ \/ Contains(Lower(Val(extract.soup[k].href)), "contact")
           \/ Contains(Lower(extract.soup[k].text), "contact")}

(* C18: with a form in the page, extract_contact_form_url returns the       *)
(* action of the first form resolved against the base URL, or the base URL  *)
(* when that action is missing or blank, whatever the anchors are; without  *)
(* a form, the resolved href of the first anchor whose href or label holds  *)
(* "contact"; otherwise nothing.                                            *)
C18_FirstFormThenContactAnchor ==
    ListedBy("extract_contact_form_url") =>
        IF FormPositions # {}
        THEN LET form == extract.soup[Leftmost(FormPositions)]
             IN  IF form.action = PyNone \/ Strip(Val(form.action), WhitespaceSet) = ""
                 THEN extract.out = Str(extract.page_url)
                 ELSE extract.out =
                        Str(urljoin(extract.page_url, Strip(Val(form.action), WhitespaceSet)))
        ELSE IF ContactAnchorPositions # {}
        THEN extract.out =
                Str(urljoin(extract.page_url,
                            Strip(Val(extract.soup[Leftmost(ContactAnchorPositions)].href),
                                  WhitespaceSet)))
        ELSE extract.out = PyNone

(* no form; an anchor that names no contact, then one that does in its      *)
(* label only: the second decides                                           *)
C18_Witness ==
    /\ ListedBy("extract_contact_form_url")
    /\ Len(extract.soup) = 2
    /\ extract.soup[1].href = Str("https://www.school.edu.au/about")
    /\ extract.soup[2].href = Str("enquiry.html")
    /\ extract.soup[2].text = " Contact Us "
    /\ extract.out = Str("https://www.school.edu.au/about/enquiry.html")

CoreFields == {"school_name", "suburb", "postcode", "phone", "public_email", "website_url"}

\* the JSON-LD items of the page, in order
PageItems == JsonLdItems(SelectSeq(extract.soup, IsLdJson))

\* the value an item holds for a field of the result
ItemValue(item, field) ==
    LET address == Get(item, "address", PyNone)
        Inner(key) == IF address # PyNone /\ IsDict(address)
                      THEN Get(address, key, PyNone) ELSE PyNone
    IN  CASE field = "school_name" -> Get(item, "name", PyNone)
          [] field = "phone" -> Get(item, "telephone", PyNone)
          [] field = "website_url" -> Get(item, "url", PyNone)
          [] field = "public_email" -> Get(item, "email", PyNone)
          [] field = "suburb" -> Inner("addressLocality")
          [] field = "postcode" -> Inner("postalCode")

\* the address the selector takes from a JSON-LD email, PyNone when it takes none
SelectedFrom(email) ==
    IF email # PyNone /\ IsStr(email)
    THEN choose_general_email(<<email>>, Str(extract.page_url), "jsonld")
    ELSE PyNone

MailtoChoice ==
    choose_general_email(Strs(extract_mailto_emails(extract.soup)),
                         Str(extract.page_url), "mailto")

TextChoice ==
    choose_general_email(Strs(extract_emails_from_text(get_text(extract.soup, "\n"))),
                         Str(extract.page_url), "text")

\* what the page body gives for a field
BodyValue(field) ==
    BodyRest(BodyStart(extract.soup), extract.soup,
             IF MailtoChoice # PyNone THEN MailtoChoice ELSE TextChoice)[field]

\* mailto over free text over JSON-LD
EmailPrecedence(result) ==
    /\ MailtoChoice # PyNone => result.public_email = MailtoChoice
    /\ (MailtoChoice = PyNone /\ TextChoice # PyNone) => result.public_email = TextChoice

(* C19 as written: in the result returned, a non-empty value of the page    *)
(* body is kept, and otherwise the first JSON-LD item that holds a          *)
(* non-empty value for the field decides it (for public_email, by what the  *)
(* selector makes of that value); mailto over text over JSON-LD.            *)
C19_AsWritten ==
    extract.pc = "returned" =>
        /\ EmailPrecedence(extract.result)
        /\ \A field \in CoreFields :
              LET S == {i \in 1..Len(PageItems) : Truth(ItemValue(PageItems[i], field))}
                  first == ItemValue(PageItems[Leftmost(S)], field)
              IN  IF Truth(BodyValue(field)) THEN extract.result[field] = BodyValue(field)
                  ELSE S # {} =>
                        extract.result[field] =
                            IF field = "public_email" THEN SelectedFrom(first) ELSE first

\* what an item supplies for a field: for public_email, the address selected
Supplies(item, field) ==
    IF field = "public_email" THEN SelectedFrom(ItemValue(item, field))
    ELSE ItemValue(item, field)

\* where extract_school_core_fields is once it has a result to fill
CorePositions == {"choose", "chosen", "jsonld", "returned"}

\* the result returned, field by field
FirstSupplierWins(result) ==
    \A field \in CoreFields :
        LET S == {i \in 1..Len(PageItems) : Truth(Supplies(PageItems[i], field))}
        IN  IF Truth(BodyValue(field)) THEN result[field] = BodyValue(field)
            ELSE S # {} => result[field] = Supplies(PageItems[Leftmost(S)], field)

(* C19, amended: no step of extract_school_core_fields overwrites a field   *)
(* that holds a non-empty value, and in the result returned a non-empty     *)
(* value of the page body is kept, otherwise the first JSON-LD item that    *)
(* supplies one decides the field, where for public_email an item supplies  *)
(* the address choose_general_email selects from its email, if any; mailto  *)
(* over text over JSON-LD.                                                  *)
C19_FilledOnce ==
    [][(extract.pc \in CorePositions /\ extract'.pc \in CorePositions) =>
          /\ \A field \in CoreFields :
                Truth(extract.result[field])
                    => extract'.result[field] = extract.result[field]
          /\ extract'.pc = "returned" =>
                /\ EmailPrecedence(extract'.result)
                /\ FirstSupplierWins(extract'.result)]_vars

(* a page with an h1 and a JSON-LD item that names the school too: the h1   *)
(* name is kept, the phone the body lacks comes from JSON-LD                *)
C19_Witness ==
    /\ extract.pc = "returned"
    /\ Len(extract.soup) = 2
    /\ extract.soup[1].tag = "h1"
    /\ Len(PageItems) = 1
    /\ ItemValue(PageItems[1], "school_name") = Str("Kew HS")
    /\ extract.result.school_name = Str("Kew High")
    /\ extract.result.phone = Str("0390001111")
    /\ extract.result.public_email = Str("admin@school.edu.au")

ListOps ==
    {"extract_emails_from_text", "extract_mailto_emails",
     "extract_cloudflare_protected_emails"}

\* what the extractor collected before it removed duplicates
Collected ==
    LET text == get_text(extract.soup, "\n")
    IN  CASE extract.op = "extract_emails_from_text" ->
                EmailFindall(text, 1) \o BracketFindall(text, 1) \o WordFindall(text, 1)
          [] extract.op = "extract_mailto_emails" ->
                MailtoCollected(SelectSeq(extract.soup, IsMailto))
          [] extract.op = "extract_cloudflare_protected_emails" ->
                CloudflareCollected(SelectSeq(extract.soup, IsProtected))

\* an entry trimmed and in lower case
Folded(e) == Lower(Strip(e, WhitespaceSet))

\* where the entry's first occurrence is in the collected sequence, 0 if nowhere
FirstOccurrence(e) ==
    IF \E c \in 1..Len(Collected) : Folded(Collected[c]) = Folded(e)
    THEN Leftmost({c \in 1..Len(Collected) : Folded(Collected[c]) = Folded(e)})
    ELSE 0

(* C20: a candidate list returned by extract_emails_from_text,              *)
(* extract_mailto_emails or extract_cloudflare_protected_emails holds no    *)
(* two entries equal after trimming and lowercasing, no empty entry, only   *)
(* trimmed entries, and its entries are the first occurrences of the        *)
(* collected sequence, in that order.                                       *)
C20_UniqueTrimmedInOrder ==
    (extract.pc = "listed" /\ extract.op \in ListOps) =>
        LET out == extract.out
        IN  /\ \A i, j \in 1..Len(out) : i # j => Folded(out[i]) # Folded(out[j])
            /\ \A i \in 1..Len(out) :
                  /\ out[i] # ""
                  /\ out[i] = Strip(out[i], WhitespaceSet)
                  /\ FirstOccurrence(out[i]) > 0
                  /\ out[i] = Strip(Collected[FirstOccurrence(out[i])], WhitespaceSet)
            /\ \A i, j \in 1..Len(out) :
                  i < j => FirstOccurrence(out[i]) < FirstOccurrence(out[j])
            /\ \A c \in 1..Len(Collected) :
                  Folded(Collected[c]) # "" => \E i \in 1..Len(out) : Folded(out[i]) = Folded(Collected[c])

(* a mailto link and a second one naming Admin@ and admin@: three collected, *)
(* two returned, the first spelling of the duplicate kept                    *)
C20_Witness ==
    /\ ListedBy("extract_mailto_emails")
    /\ Len(Collected) = 3
    /\ extract.out = <<"office@school.edu.au", "Admin@school.edu.au">>

(* C22: after standardise_dataframe or dedupe_prefer_email returned, the    *)
(* frame the caller passed has the columns, the rows and the values it had  *)
(* when the call was made.                                                  *)
C22_ArgumentUntouched == frame.arg = frame.before

\* the registrable domain as the specification words it
StatedRegistrable(host) ==
    LET labels == SplitNonEmpty(host, ".")
    IN  IF Len(labels) >= 3 /\ (\E suf \in AU_SECOND_LEVEL : EndsWith(host, suf))
        THEN Join(LastN(labels, 3), ".")
        ELSE IF Len(labels) >= 2 THEN Join(LastN(labels, 2), ".")
        ELSE host

\* equal to the host, a subdomain of it, or of the same registrable domain
StatedRelated(domain, host) ==
    \/ domain = host
    \/ EndsWith(domain, "." \o host)
    \/ StatedRegistrable(domain) = StatedRegistrable(host)

(* C23: where the relationship check decides (the address passes the syntax *)
(* checks, the website has a host, the source is neither directory nor      *)
(* mixed, the domain is not trusted), the address is valid if and only if   *)
(* its domain equals the host without a leading www., is a subdomain of it  *)
(* or has its registrable domain.                                           *)
C23_RelatedIffStated ==
    ClassifyDone =>
        LET clean == CleanOf(classify.email)
            host == _extract_hostname(classify.website_url)
        IN  ( /\ SyntaxReason(clean) = "pass"
              /\ host # PyNone
              /\ classify.source \notin {"directory", "mixed"}
              /\ DomainOf(clean) \notin TRUSTED_GOV_EMAIL_DOMAINS )
            => (classify.result[2] = "valid"
                    <=> StatedRelated(DomainOf(clean), Val(host)))

\* the harvested string before the loop that removes the leading tokens
BeforeTokenLoop(value) ==
    Strip(Lower(Strip(RemoveChars(value, INVISIBLE_CHARS), WhitespaceSet)), PunctuationSet)

(* the leading run of whole "%20" and "+" tokens removed, with the white    *)
(* space that follows a token                                               *)
RECURSIVE WithoutLeadingTokens(_)
WithoutLeadingTokens(s) ==
    IF StartsWith(s, "%20") THEN WithoutLeadingTokens(LStrip(From(s, 4), WhitespaceSet))
    ELSE IF StartsWith(s, "+") THEN WithoutLeadingTokens(LStrip(From(s, 2), WhitespaceSet))
    ELSE s

(* C26: the address classify_public_email returns is the harvested string   *)
(* without its leading run of whole "%20" and "+" tokens, every other       *)
(* character kept.                                                          *)
C26_WholeTokensRemoved ==
    (ClassifyDone /\ classify.result[1] # PyNone) =>
        Val(classify.result[1]) = WithoutLeadingTokens(BeforeTokenLoop(Val(classify.email)))

(* C30: an address classify_public_email returned, classified again with    *)
(* the same website_url and source, gives the same address, disposition and *)
(* reason.                                                                  *)
C30_StableOnOutput ==
    (ClassifyDone /\ classify.result[1] # PyNone) =>
        classify_public_email(classify.result[1], classify.website_url, classify.source)
            = classify.result

(* C25: extract_emails_from_text gives for a text the candidates it gives   *)
(* for the text with its invisible formatting characters deleted.           *)
C25_InvisibleRemovedFirst ==
    ListedBy("extract_emails_from_text") =>
        extract.out = extract_emails_from_text(
                          RemoveChars(get_text(extract.soup, "\n"), INVISIBLE_CHARS))

\* the characters of the bytes of a payload
RECURSIVE CharsOf(_)
CharsOf(p) == IF p = << >> THEN "" ELSE Chr(Head(p)) \o CharsOf(Tail(p))

(* C24: decoding the hex string of a key byte followed by the bytes of a    *)
(* payload, each combined with the key by exclusive or on 8 bits, returns   *)
(* the characters of the payload with the surrounding white space trimmed.  *)
C24_DecodeInvertsEncode ==
    (extract.pc = "decoded" /\ extract.op = "_decode_cloudflare_email") =>
        extract.out = Strip(CharsOf(extract.payload), WhitespaceSet)

\* a key with the high bit set, a payload read back letter for letter
C24_Witness ==
    /\ extract.pc = "decoded" /\ extract.op = "_decode_cloudflare_email"
    /\ extract.key = 255
    /\ extract.payload = <<97, 64>>
    /\ extract.encoded = "ff9ebf"
    /\ extract.out = "a@"

\* the fields the cleanup passes may write
CleanupFields ==
    {"public_email", "email_validation_status", "email_validation_reason",
     "website_checked"}

\* what clean_state makes of the address of a row of the file
StateVerdict(row) ==
    LET website == CellText(row.website_url)
    IN  classify_public_email(Str(CellText(row.public_email)),
                              IF website = "" THEN PyNone ELSE Str(website), "mixed")

(* C21: after clean_csv or clean_state the file holds as many rows as       *)
(* before, row for row with the value it had in every field other than      *)
(* public_email, the two diagnostics and website_checked; public_email is   *)
(* blank, or what it was (clean_csv), or the valid normalised address       *)
(* (clean_state).                                                           *)
C21_RecordsKept ==
    campaign.script \in {"clean", "state"} =>
        /\ Len(campaign.csv) = Len(campaign.before)
        /\ \A k \in 1..Len(campaign.before) :
              LET was == campaign.before[k]
                  now == campaign.csv[k]
              IN  /\ \A c \in (DOMAIN was) \ CleanupFields :
                        c \in DOMAIN now /\ now[c] = was[c]
                  /\ (DOMAIN now) \ (DOMAIN was) \subseteq CleanupFields
                  /\ \/ now.public_email = NaN
                     \/ campaign.script = "clean" /\ now.public_email = was.public_email
                     \/ /\ campaign.script = "state"
                        /\ StateVerdict(was)[2] = "valid"
                        /\ now.public_email = StateVerdict(was)[1]

(* clean_state over a file of two rows: the false address of the first row  *)
(* is blanked and the row stays, with its website and its checked flag; the *)
(* second row keeps its address                                             *)
C21_Witness ==
    /\ campaign.script = "state"
    /\ Len(campaign.csv) = 2
    /\ campaign.before[1].public_email = Str("educ@ion.we")
    /\ campaign.csv[1].public_email = NaN
    /\ campaign.csv[1].email_validation_status = Str("invalid")
    /\ campaign.csv[1].website_url = Str("https://s.edu.au")
    /\ campaign.csv[1].website_checked = Str("true")
    /\ campaign.csv[2].public_email = Str("info@s.edu.au")

\* the step is one of an enrichment loop and leaves the file written
FileWritten ==
    /\ campaign.pc = "enrich"
    /\ campaign'.pc = "ready" \/ campaign'.csv # campaign.csv

(* C29: in the VIC and TAS enrichment loops, every checkpoint and the final *)
(* file hold website_checked = true for each row whose website was tried in *)
(* the run, whatever the fetch returned or raised; a row is tried only if   *)
(* it has a website URL and the file the run started from does not hold it  *)
(* as checked; with a positive --max-sites at most that many rows are tried *)
(* in the run.                                                              *)
C29_TriedRowsStayChecked ==
    [][campaign.pc = "enrich" =>
        /\ FileWritten =>
              \A k \in campaign'.fetched :
                  campaign'.csv[k].website_checked = Str("true")
        /\ \A k \in 1..Len(campaign.df) :
              FetchedInStep(k) =>
                  /\ ensure_http(campaign.df[k].website_url) # PyNone
                  /\ ~CheckedTrue(campaign.before[k])
        /\ campaign.max_sites > 0 =>
              Cardinality(campaign'.fetched) <= campaign.max_sites]_vars

(* a second run of the TAS loop is over: the website of row 1 was tried and *)
(* raised, the saved file holds the row as checked; row 2, checked in the   *)
(* file the run started from, was not tried                                 *)
C29_Witness ==
    /\ campaign.pc = "ready" /\ campaign.script = "tas" /\ campaign.passes = 2
    /\ Len(campaign.csv) = 2
    /\ campaign.fetched = {1}
    /\ campaign.sites[1].raises
    /\ campaign.before[1].website_checked = Str("false")
    /\ campaign.csv[1].website_checked = Str("true")
    /\ campaign.before[2].website_checked = Str("true")
    /\ ensure_http(campaign.before[2].website_url) # PyNone


(* What the origin of url answered for its robots.txt, read as a retrieval: *)
(* a response below 400 with a body, or the output of a curl that ended     *)
(* with return code 0, is a retrieved body; a 404 response, or a curl       *)
(* output with a 404 title, is an answer of 404.                            *)
OriginAnswer(url) == client.web[BaseOf(url) \o "/robots.txt"]

RetrievedBody(answer) ==
    IF answer.raises = "" THEN (IF answer.status >= 400 THEN "" ELSE answer.text)
    ELSE IF answer.raises = SSLError /\ answer.returncode = 0
              /\ ~Contains(Lower(answer.stdout), "<title>404")
    THEN answer.stdout
    ELSE ""

Answered404(answer) ==
    \/ answer.raises = "" /\ answer.status = 404
    \/ /\ answer.raises = SSLError /\ answer.returncode = 0
       /\ Contains(Lower(answer.stdout), "<title>404")

StatedAllowed(url) ==
    \/ Answered404(OriginAnswer(url))
    \/ /\ RetrievedBody(OriginAnswer(url)) # ""
       /\ can_fetch(Disallowed(RetrievedBody(OriginAnswer(url))), url)

(* C27: get issues the page request only if the robots.txt of the origin of *)
(* the URL was retrieved with a non-empty body that permits the URL, or     *)
(* answered 404; in every other case it raises PermissionError without      *)
(* requesting the page; and the verdict of an origin is computed once.      *)
C27_FailsClosed ==
    client.pc # "none" =>
        /\ client.pc = "page" => StatedAllowed(client.url)
        /\ client.pc = "idle" /\ client.outcome \in {"Response", "raised"}
             => StatedAllowed(client.url)
        /\ \A b \in DOMAIN client.computed : client.computed[b] <= 1

(* C28: any two consecutive outbound requests of one client, the curl and   *)
(* http fallbacks and the request after a failed one included, start at     *)
(* least request_delay_seconds apart.                                       *)
C28_RequestsSpaced ==
    client.pc # "none" /\ client.prev_start # -1
        => client.last_start - client.prev_start >= Delay

=============================================================================
